---- MODULE Spec2Model ----
(***************************************************************************)
(* A model of the project-type registry (ProjectTypeManager, config.js)    *)
(* and of the P&L calculation engine (PLCalculationEngine), with the two    *)
(* selection state managers and the start-up sequence of the Nova tab.     *)
(*                                                                         *)
(* JavaScript values are records [t, n, d, s]: t is the typeof tag, n/d a  *)
(* rational in lowest terms (d = 0 encodes the non-finite numbers: 0/0 is  *)
(* NaN, 1/0 Infinity, -1/0 -Infinity), s the text of a string.  Numbers    *)
(* are exact rationals: IEEE rounding of the doubles is not modelled.      *)
(* Booleans keep n = 1 for true and n = 0 for false; a string keeps in n/d *)
(* the number parseFloat reads from its text.                              *)
(***************************************************************************)
EXTENDS Integers, Sequences, FiniteSets, TLC

VARIABLES customTypes, storage, projectTypes, calculations, lastOp, ret, ops,
          selection, nova, initializer

vars ==
  <<customTypes, storage, projectTypes, calculations, lastOp, ret, ops,
    selection, nova, initializer>>

\* The selection state of the page (SelectionStateManager), that of the Nova
\* tab (NovaStateManager) and the start-up object (NovaInitializer).
pageVars == <<selection, nova, initializer>>

----------------------------------------------------------------------------
(* JavaScript values *)

Abs(i) == IF i < 0 THEN -i ELSE i

RECURSIVE gcd(_, _)
gcd(a, b) == IF b = 0 THEN a ELSE gcd(b, a % b)

Rat(num, den) ==
  LET g == gcd(Abs(num), Abs(den))
      sg == IF den < 0 THEN -1 ELSE 1
  IN  [t |-> "number", n |-> sg * (num \div g), d |-> sg * (den \div g), s |-> ""]

Num(i) == [t |-> "number", n |-> i, d |-> 1, s |-> ""]

NaN == [t |-> "number", n |-> 0, d |-> 0, s |-> ""]

Infinity == [t |-> "number", n |-> 1, d |-> 0, s |-> ""]

NegInfinity == [t |-> "number", n |-> -1, d |-> 0, s |-> ""]

Bool(b) == [t |-> "boolean", n |-> IF b THEN 1 ELSE 0, d |-> 1, s |-> ""]

\* A string that holds no numeral, such as an id or a name.  A string value
\* carries in n/d the number its text parses to (Text, below): here none, NaN.
Str(str) == [t |-> "string", n |-> 0, d |-> 0, s |-> str]

Undefined == [t |-> "undefined", n |-> 0, d |-> 1, s |-> ""]

typeof(v) == v.t

IsNaN(v) == v.t = "number" /\ v.d = 0 /\ v.n = 0

IsFinite(v) == v.t = "number" /\ v.d # 0

\* ToBoolean: 0, NaN, false, "" and undefined are falsy.
Truthy(v) ==
  CASE v.t = "number" -> v.n # 0
    [] v.t = "boolean" -> v.n = 1
    [] v.t = "string" -> v.s # ""
    [] OTHER -> FALSE

\* a || b
Or(a, b) == IF Truthy(a) THEN a ELSE b

\* ToNumber of the operands arithmetic meets here: numbers, booleans, undefined.
ToNumber(v) ==
  CASE v.t = "number" -> v
    [] v.t = "boolean" -> Num(v.n)
    [] OTHER -> NaN

Sign(i) == IF i > 0 THEN 1 ELSE IF i < 0 THEN -1 ELSE 0

JSNeg(a) == LET x == ToNumber(a) IN [x EXCEPT !.n = -x.n]

JSAdd(a, b) ==
  LET x == ToNumber(a)
      y == ToNumber(b)
  IN  CASE IsNaN(x) \/ IsNaN(y) -> NaN
        [] x.d = 0 /\ y.d = 0 -> IF x.n = y.n THEN x ELSE NaN
        [] x.d = 0 -> x
        [] y.d = 0 -> y
        [] OTHER -> Rat(x.n * y.d + y.n * x.d, x.d * y.d)

JSSub(a, b) == JSAdd(a, JSNeg(b))

JSMul(a, b) ==
  LET x == ToNumber(a)
      y == ToNumber(b)
  IN  CASE IsNaN(x) \/ IsNaN(y) -> NaN
        [] x.d = 0 \/ y.d = 0 ->
             IF x.n = 0 \/ y.n = 0 THEN NaN
             ELSE IF Sign(x.n) = Sign(y.n) THEN Infinity ELSE NegInfinity
        [] OTHER ->
             \* cross-reduce first, so that the products stay small
             LET g1 == gcd(Abs(x.n), y.d)
                 g2 == gcd(Abs(y.n), x.d)
             IN  Rat((x.n \div g1) * (y.n \div g2), (x.d \div g2) * (y.d \div g1))

JSDiv(a, b) ==
  LET x == ToNumber(a)
      y == ToNumber(b)
  IN  CASE IsNaN(x) \/ IsNaN(y) -> NaN
        [] x.d = 0 /\ y.d = 0 -> NaN
        [] x.d = 0 -> IF y.n < 0 THEN JSNeg(x) ELSE x
        [] y.d = 0 -> Num(0)
        [] y.n = 0 ->
             IF x.n = 0 THEN NaN ELSE IF x.n > 0 THEN Infinity ELSE NegInfinity
        [] OTHER -> JSMul(x, Rat(y.d, y.n))

\* a < b; every comparison with NaN is false.
JSLt(a, b) ==
  LET x == ToNumber(a)
      y == ToNumber(b)
  IN  CASE IsNaN(x) \/ IsNaN(y) -> FALSE
        [] x.d = 0 /\ y.d = 0 -> x.n < y.n
        [] x.d = 0 -> x.n < 0
        [] y.d = 0 -> y.n > 0
        [] OTHER -> x.n * y.d < y.n * x.d

JSLe(a, b) ==
  LET x == ToNumber(a)
      y == ToNumber(b)
  IN  ~IsNaN(x) /\ ~IsNaN(y) /\ ~JSLt(y, x)

JSGt(a, b) == JSLt(b, a)

JSGe(a, b) == JSLe(b, a)

\* Math.floor, the rounding calculateROI does not use.
MathFloor(a) ==
  LET x == ToNumber(a)
  IN  IF x.d = 0 THEN x ELSE Num(x.n \div x.d)

\* Math.ceil
MathCeil(a) ==
  LET x == ToNumber(a)
  IN  IF x.d = 0 THEN x ELSE Num(-((-x.n) \div x.d))

----------------------------------------------------------------------------
(* Strings.  TLC's strings are atoms, so the string methods the code uses  *)
(* work on the characters of a string, chars[s].                           *)

chars ==
  ("" :> <<  >>) @@
  ("-3" :> << "-", "3" >>) @@
  ("0" :> << "0" >>) @@
  ("12" :> << "1", "2" >>) @@
  ("2.5" :> << "2", ".", "5" >>) @@
  ("Rate" :> << "R", "a", "t", "e" >>) @@
  ("Sal" :> << "S", "a", "l" >>) @@
  ("Salary" :> << "S", "a", "l", "a", "r", "y" >>) @@
  ("ServiceREVENUE" :> << "S", "e", "r", "v", "i", "c", "e", "R", "E", "V", "E", "N", "U", "E" >>) @@
  ("abc" :> << "a", "b", "c" >>) @@
  ("addStaff" :> << "a", "d", "d", "S", "t", "a", "f", "f" >>) @@
  ("addStaffSal" :> << "a", "d", "d", "S", "t", "a", "f", "f", "S", "a", "l" >>) @@
  ("admin" :> << "a", "d", "m", "i", "n" >>) @@
  ("amenities" :> << "a", "m", "e", "n", "i", "t", "i", "e", "s" >>) @@
  ("annualFee" :> << "a", "n", "n", "u", "a", "l", "F", "e", "e" >>) @@
  ("annualMembers" :> << "a", "n", "n", "u", "a", "l", "M", "e", "m", "b", "e", "r", "s" >>) @@
  ("averageRental" :> << "a", "v", "e", "r", "a", "g", "e", "R", "e", "n", "t", "a", "l" >>) @@
  ("avgContractValue" :> << "a", "v", "g", "C", "o", "n", "t", "r", "a", "c", "t", "V", "a", "l", "u", "e" >>) @@
  ("avgDealValue" :> << "a", "v", "g", "D", "e", "a", "l", "V", "a", "l", "u", "e" >>) @@
  ("avgOrderValue" :> << "a", "v", "g", "O", "r", "d", "e", "r", "V", "a", "l", "u", "e" >>) @@
  ("avgPartnerRevenue" :> << "a", "v", "g", "P", "a", "r", "t", "n", "e", "r", "R", "e", "v", "e", "n", "u", "e" >>) @@
  ("basicPrice" :> << "b", "a", "s", "i", "c", "P", "r", "i", "c", "e" >>) @@
  ("basicSubs" :> << "b", "a", "s", "i", "c", "S", "u", "b", "s" >>) @@
  ("basicUsers" :> << "b", "a", "s", "i", "c", "U", "s", "e", "r", "s" >>) @@
  ("billableHours" :> << "b", "i", "l", "l", "a", "b", "l", "e", "H", "o", "u", "r", "s" >>) @@
  ("capacity" :> << "c", "a", "p", "a", "c", "i", "t", "y" >>) @@
  ("capitalGains" :> << "c", "a", "p", "i", "t", "a", "l", "G", "a", "i", "n", "s" >>) @@
  ("catering" :> << "c", "a", "t", "e", "r", "i", "n", "g" >>) @@
  ("certification" :> << "c", "e", "r", "t", "i", "f", "i", "c", "a", "t", "i", "o", "n" >>) @@
  ("churnRate" :> << "c", "h", "u", "r", "n", "R", "a", "t", "e" >>) @@
  ("cleaning" :> << "c", "l", "e", "a", "n", "i", "n", "g" >>) @@
  ("commission" :> << "c", "o", "m", "m", "i", "s", "s", "i", "o", "n" >>) @@
  ("consultant" :> << "c", "o", "n", "s", "u", "l", "t", "a", "n", "t" >>) @@
  ("consultantSal" :> << "c", "o", "n", "s", "u", "l", "t", "a", "n", "t", "S", "a", "l" >>) @@
  ("contracts" :> << "c", "o", "n", "t", "r", "a", "c", "t", "s" >>) @@
  ("costSavings" :> << "c", "o", "s", "t", "S", "a", "v", "i", "n", "g", "s" >>) @@
  ("courtCost" :> << "c", "o", "u", "r", "t", "C", "o", "s", "t" >>) @@
  ("courts" :> << "c", "o", "u", "r", "t", "s" >>) @@
  ("customer" :> << "c", "u", "s", "t", "o", "m", "e", "r" >>) @@
  ("customerSal" :> << "c", "u", "s", "t", "o", "m", "e", "r", "S", "a", "l" >>) @@
  ("dailyRate" :> << "d", "a", "i", "l", "y", "R", "a", "t", "e" >>) @@
  ("days" :> << "d", "a", "y", "s" >>) @@
  ("dealsPerMonth" :> << "d", "e", "a", "l", "s", "P", "e", "r", "M", "o", "n", "t", "h" >>) @@
  ("developerSal" :> << "d", "e", "v", "e", "l", "o", "p", "e", "r", "S", "a", "l" >>) @@
  ("developers" :> << "d", "e", "v", "e", "l", "o", "p", "e", "r", "s" >>) @@
  ("development" :> << "d", "e", "v", "e", "l", "o", "p", "m", "e", "n", "t" >>) @@
  ("dividendYield" :> << "d", "i", "v", "i", "d", "e", "n", "d", "Y", "i", "e", "l", "d" >>) @@
  ("efficiencyGain" :> << "e", "f", "f", "i", "c", "i", "e", "n", "c", "y", "G", "a", "i", "n" >>) @@
  ("efficiencyGains" :> << "e", "f", "f", "i", "c", "i", "e", "n", "c", "y", "G", "a", "i", "n", "s" >>) @@
  ("equipment" :> << "e", "q", "u", "i", "p", "m", "e", "n", "t" >>) @@
  ("event" :> << "e", "v", "e", "n", "t" >>) @@
  ("eventCatering" :> << "e", "v", "e", "n", "t", "C", "a", "t", "e", "r", "i", "n", "g" >>) @@
  ("eventCount" :> << "e", "v", "e", "n", "t", "C", "o", "u", "n", "t" >>) @@
  ("eventManager" :> << "e", "v", "e", "n", "t", "M", "a", "n", "a", "g", "e", "r" >>) @@
  ("eventManagerSal" :> << "e", "v", "e", "n", "t", "M", "a", "n", "a", "g", "e", "r", "S", "a", "l" >>) @@
  ("eventsPerYear" :> << "e", "v", "e", "n", "t", "s", "P", "e", "r", "Y", "e", "a", "r" >>) @@
  ("expectedReturn" :> << "e", "x", "p", "e", "c", "t", "e", "d", "R", "e", "t", "u", "r", "n" >>) @@
  ("false" :> << "f", "a", "l", "s", "e" >>) @@
  ("flooring" :> << "f", "l", "o", "o", "r", "i", "n", "g" >>) @@
  ("ftCoach" :> << "f", "t", "C", "o", "a", "c", "h" >>) @@
  ("ftCoachSal" :> << "f", "t", "C", "o", "a", "c", "h", "S", "a", "l" >>) @@
  ("ftMgr" :> << "f", "t", "M", "g", "r" >>) @@
  ("ftMgrSal" :> << "f", "t", "M", "g", "r", "S", "a", "l" >>) @@
  ("ftRec" :> << "f", "t", "R", "e", "c" >>) @@
  ("ftRecSal" :> << "f", "t", "R", "e", "c", "S", "a", "l" >>) @@
  ("ftTrainer" :> << "f", "t", "T", "r", "a", "i", "n", "e", "r" >>) @@
  ("ftTrainerSal" :> << "f", "t", "T", "r", "a", "i", "n", "e", "r", "S", "a", "l" >>) @@
  ("fulfillment" :> << "f", "u", "l", "f", "i", "l", "l", "m", "e", "n", "t" >>) @@
  ("fulfillmentSal" :> << "f", "u", "l", "f", "i", "l", "l", "m", "e", "n", "t", "S", "a", "l" >>) @@
  ("grossMargin" :> << "g", "r", "o", "s", "s", "M", "a", "r", "g", "i", "n" >>) @@
  ("grossRevenue" :> << "g", "r", "o", "s", "s", "R", "e", "v", "e", "n", "u", "e" >>) @@
  ("ground" :> << "g", "r", "o", "u", "n", "d" >>) @@
  ("growthRate" :> << "g", "r", "o", "w", "t", "h", "R", "a", "t", "e" >>) @@
  ("handymanHours" :> << "h", "a", "n", "d", "y", "m", "a", "n", "H", "o", "u", "r", "s" >>) @@
  ("handymanRate" :> << "h", "a", "n", "d", "y", "m", "a", "n", "R", "a", "t", "e" >>) @@
  ("hosting" :> << "h", "o", "s", "t", "i", "n", "g" >>) @@
  ("hourlyRate" :> << "h", "o", "u", "r", "l", "y", "R", "a", "t", "e" >>) @@
  ("implementationTime" :> << "i", "m", "p", "l", "e", "m", "e", "n", "t", "a", "t", "i", "o", "n", "T", "i", "m", "e" >>) @@
  ("infrastructure" :> << "i", "n", "f", "r", "a", "s", "t", "r", "u", "c", "t", "u", "r", "e" >>) @@
  ("initialCapital" :> << "i", "n", "i", "t", "i", "a", "l", "C", "a", "p", "i", "t", "a", "l" >>) @@
  ("insurance" :> << "i", "n", "s", "u", "r", "a", "n", "c", "e" >>) @@
  ("inventory" :> << "i", "n", "v", "e", "n", "t", "o", "r", "y" >>) @@
  ("junior" :> << "j", "u", "n", "i", "o", "r" >>) @@
  ("juniorSal" :> << "j", "u", "n", "i", "o", "r", "S", "a", "l" >>) @@
  ("licenseeRevenue" :> << "l", "i", "c", "e", "n", "s", "e", "e", "R", "e", "v", "e", "n", "u", "e" >>) @@
  ("licensees" :> << "l", "i", "c", "e", "n", "s", "e", "e", "s" >>) @@
  ("licenses" :> << "l", "i", "c", "e", "n", "s", "e", "s" >>) @@
  ("maintenance" :> << "m", "a", "i", "n", "t", "e", "n", "a", "n", "c", "e" >>) @@
  ("management" :> << "m", "a", "n", "a", "g", "e", "m", "e", "n", "t" >>) @@
  ("managementFee" :> << "m", "a", "n", "a", "g", "e", "m", "e", "n", "t", "F", "e", "e" >>) @@
  ("managementSal" :> << "m", "a", "n", "a", "g", "e", "m", "e", "n", "t", "S", "a", "l" >>) @@
  ("manager" :> << "m", "a", "n", "a", "g", "e", "r" >>) @@
  ("managerSal" :> << "m", "a", "n", "a", "g", "e", "r", "S", "a", "l" >>) @@
  ("marketing" :> << "m", "a", "r", "k", "e", "t", "i", "n", "g" >>) @@
  ("materials" :> << "m", "a", "t", "e", "r", "i", "a", "l", "s" >>) @@
  ("merchants" :> << "m", "e", "r", "c", "h", "a", "n", "t", "s" >>) @@
  ("misc" :> << "m", "i", "s", "c" >>) @@
  ("monthFee" :> << "m", "o", "n", "t", "h", "F", "e", "e" >>) @@
  ("monthMembers" :> << "m", "o", "n", "t", "h", "M", "e", "m", "b", "e", "r", "s" >>) @@
  ("monthlyRent" :> << "m", "o", "n", "t", "h", "l", "y", "R", "e", "n", "t" >>) @@
  ("occupancyRate" :> << "o", "c", "c", "u", "p", "a", "n", "c", "y", "R", "a", "t", "e" >>) @@
  ("offHours" :> << "o", "f", "f", "H", "o", "u", "r", "s" >>) @@
  ("offRate" :> << "o", "f", "f", "R", "a", "t", "e" >>) @@
  ("offUtil" :> << "o", "f", "f", "U", "t", "i", "l" >>) @@
  ("office" :> << "o", "f", "f", "i", "c", "e" >>) @@
  ("ongoingStaff" :> << "o", "n", "g", "o", "i", "n", "g", "S", "t", "a", "f", "f" >>) @@
  ("operational" :> << "o", "p", "e", "r", "a", "t", "i", "o", "n", "a", "l" >>) @@
  ("operationalSal" :> << "o", "p", "e", "r", "a", "t", "i", "o", "n", "a", "l", "S", "a", "l" >>) @@
  ("ordersPerMonth" :> << "o", "r", "d", "e", "r", "s", "P", "e", "r", "M", "o", "n", "t", "h" >>) @@
  ("other" :> << "o", "t", "h", "e", "r" >>) @@
  ("otherIncome" :> << "o", "t", "h", "e", "r", "I", "n", "c", "o", "m", "e" >>) @@
  ("partnerGrowth" :> << "p", "a", "r", "t", "n", "e", "r", "G", "r", "o", "w", "t", "h" >>) @@
  ("partners" :> << "p", "a", "r", "t", "n", "e", "r", "s" >>) @@
  ("payment" :> << "p", "a", "y", "m", "e", "n", "t" >>) @@
  ("peakHours" :> << "p", "e", "a", "k", "H", "o", "u", "r", "s" >>) @@
  ("peakRate" :> << "p", "e", "a", "k", "R", "a", "t", "e" >>) @@
  ("peakUtil" :> << "p", "e", "a", "k", "U", "t", "i", "l" >>) @@
  ("pmRate" :> << "p", "m", "R", "a", "t", "e" >>) @@
  ("premiumPrice" :> << "p", "r", "e", "m", "i", "u", "m", "P", "r", "i", "c", "e" >>) @@
  ("premiumSubs" :> << "p", "r", "e", "m", "i", "u", "m", "S", "u", "b", "s" >>) @@
  ("primaryRevenue" :> << "p", "r", "i", "m", "a", "r", "y", "R", "e", "v", "e", "n", "u", "e" >>) @@
  ("proPrice" :> << "p", "r", "o", "P", "r", "i", "c", "e" >>) @@
  ("proUsers" :> << "p", "r", "o", "U", "s", "e", "r", "s" >>) @@
  ("productRevenue" :> << "p", "r", "o", "d", "u", "c", "t", "R", "e", "v", "e", "n", "u", "e" >>) @@
  ("professional" :> << "p", "r", "o", "f", "e", "s", "s", "i", "o", "n", "a", "l" >>) @@
  ("projectManager" :> << "p", "r", "o", "j", "e", "c", "t", "M", "a", "n", "a", "g", "e", "r" >>) @@
  ("propertyManager" :> << "p", "r", "o", "p", "e", "r", "t", "y", "M", "a", "n", "a", "g", "e", "r" >>) @@
  ("ptCoach" :> << "p", "t", "C", "o", "a", "c", "h" >>) @@
  ("ptCoachSal" :> << "p", "t", "C", "o", "a", "c", "h", "S", "a", "l" >>) @@
  ("ptTrainer" :> << "p", "t", "T", "r", "a", "i", "n", "e", "r" >>) @@
  ("ptTrainerSal" :> << "p", "t", "T", "r", "a", "i", "n", "e", "r", "S", "a", "l" >>) @@
  ("qualityImprovement" :> << "q", "u", "a", "l", "i", "t", "y", "I", "m", "p", "r", "o", "v", "e", "m", "e", "n", "t" >>) @@
  ("rampDuration" :> << "r", "a", "m", "p", "D", "u", "r", "a", "t", "i", "o", "n" >>) @@
  ("rampEffect" :> << "r", "a", "m", "p", "E", "f", "f", "e", "c", "t" >>) @@
  ("rampUp" :> << "r", "a", "m", "p", "U", "p" >>) @@
  ("rampUpPeriod" :> << "r", "a", "m", "p", "U", "p", "P", "e", "r", "i", "o", "d" >>) @@
  ("redemptionRate" :> << "r", "e", "d", "e", "m", "p", "t", "i", "o", "n", "R", "a", "t", "e" >>) @@
  ("renewalRate" :> << "r", "e", "n", "e", "w", "a", "l", "R", "a", "t", "e" >>) @@
  ("rent" :> << "r", "e", "n", "t" >>) @@
  ("rentIncrease" :> << "r", "e", "n", "t", "I", "n", "c", "r", "e", "a", "s", "e" >>) @@
  ("returnRate" :> << "r", "e", "t", "u", "r", "n", "R", "a", "t", "e" >>) @@
  ("revenue" :> << "r", "e", "v", "e", "n", "u", "e" >>) @@
  ("revenueIncrease" :> << "r", "e", "v", "e", "n", "u", "e", "I", "n", "c", "r", "e", "a", "s", "e" >>) @@
  ("revenueShare" :> << "r", "e", "v", "e", "n", "u", "e", "S", "h", "a", "r", "e" >>) @@
  ("revenueSharePct" :> << "r", "e", "v", "e", "n", "u", "e", "S", "h", "a", "r", "e", "P", "c", "t" >>) @@
  ("royaltyRate" :> << "r", "o", "y", "a", "l", "t", "y", "R", "a", "t", "e" >>) @@
  ("sales" :> << "s", "a", "l", "e", "s" >>) @@
  ("secondaryRevenue" :> << "s", "e", "c", "o", "n", "d", "a", "r", "y", "R", "e", "v", "e", "n", "u", "e" >>) @@
  ("serviceRevenue" :> << "s", "e", "r", "v", "i", "c", "e", "R", "e", "v", "e", "n", "u", "e" >>) @@
  ("sessionsPerYear" :> << "s", "e", "s", "s", "i", "o", "n", "s", "P", "e", "r", "Y", "e", "a", "r" >>) @@
  ("setup" :> << "s", "e", "t", "u", "p" >>) @@
  ("shipping" :> << "s", "h", "i", "p", "p", "i", "n", "g" >>) @@
  ("speakers" :> << "s", "p", "e", "a", "k", "e", "r", "s" >>) @@
  ("sponsorship" :> << "s", "p", "o", "n", "s", "o", "r", "s", "h", "i", "p" >>) @@
  ("staff" :> << "s", "t", "a", "f", "f" >>) @@
  ("staffSal" :> << "s", "t", "a", "f", "f", "S", "a", "l" >>) @@
  ("structure" :> << "s", "t", "r", "u", "c", "t", "u", "r", "e" >>) @@
  ("studentCapacity" :> << "s", "t", "u", "d", "e", "n", "t", "C", "a", "p", "a", "c", "i", "t", "y" >>) @@
  ("support" :> << "s", "u", "p", "p", "o", "r", "t" >>) @@
  ("supportSal" :> << "s", "u", "p", "p", "o", "r", "t", "S", "a", "l" >>) @@
  ("techRate" :> << "t", "e", "c", "h", "R", "a", "t", "e" >>) @@
  ("technicalStaff" :> << "t", "e", "c", "h", "n", "i", "c", "a", "l", "S", "t", "a", "f", "f" >>) @@
  ("technology" :> << "t", "e", "c", "h", "n", "o", "l", "o", "g", "y" >>) @@
  ("ticketPrice" :> << "t", "i", "c", "k", "e", "t", "P", "r", "i", "c", "e" >>) @@
  ("timeReduction" :> << "t", "i", "m", "e", "R", "e", "d", "u", "c", "t", "i", "o", "n" >>) @@
  ("true" :> << "t", "r", "u", "e" >>) @@
  ("tuitionFee" :> << "t", "u", "i", "t", "i", "o", "n", "F", "e", "e" >>) @@
  ("undefined" :> << "u", "n", "d", "e", "f", "i", "n", "e", "d" >>) @@
  ("upfrontFees" :> << "u", "p", "f", "r", "o", "n", "t", "F", "e", "e", "s" >>) @@
  ("utilities" :> << "u", "t", "i", "l", "i", "t", "i", "e", "s" >>) @@
  ("utilizationRate" :> << "u", "t", "i", "l", "i", "z", "a", "t", "i", "o", "n", "R", "a", "t", "e" >>) @@
  ("vehicles" :> << "v", "e", "h", "i", "c", "l", "e", "s" >>) @@
  ("venue" :> << "v", "e", "n", "u", "e" >>) @@
  ("venueRental" :> << "v", "e", "n", "u", "e", "R", "e", "n", "t", "a", "l" >>) @@
  ("warehouse" :> << "w", "a", "r", "e", "h", "o", "u", "s", "e" >>) @@
  ("website" :> << "w", "e", "b", "s", "i", "t", "e" >>) @@
  ("weekFee" :> << "w", "e", "e", "k", "F", "e", "e" >>) @@
  ("weekMembers" :> << "w", "e", "e", "k", "M", "e", "m", "b", "e", "r", "s" >>) @@
  ("weeks" :> << "w", "e", "e", "k", "s" >>) @@
  ("weeksPerYear" :> << "w", "e", "e", "k", "s", "P", "e", "r", "Y", "e", "a", "r" >>)
SubSeqAt(cs, i, len) == SubSeq(cs, i, i + len - 1)

\* String.prototype.endsWith
endsWith(cs, suffix) ==
  /\ Len(suffix) <= Len(cs)
  /\ SubSeqAt(cs, Len(cs) - Len(suffix) + 1, Len(suffix)) = suffix

\* String.prototype.includes
includes(cs, sub) ==
  \E i \in 1..(Len(cs) - Len(sub) + 1) : SubSeqAt(cs, i, Len(sub)) = sub

Upper == <<"A", "B", "C", "D", "E", "F", "G", "H", "I", "J", "K", "L", "M",
           "N", "O", "P", "Q", "R", "S", "T", "U", "V", "W", "X", "Y", "Z">>

Lower == <<"a", "b", "c", "d", "e", "f", "g", "h", "i", "j", "k", "l", "m",
           "n", "o", "p", "q", "r", "s", "t", "u", "v", "w", "x", "y", "z">>

lowerChar(c) ==
  IF \E i \in 1..Len(Upper) : Upper[i] = c
  THEN Lower[CHOOSE i \in 1..Len(Upper) : Upper[i] = c]
  ELSE c

\* String.prototype.toLowerCase
toLowerCase(cs) == [i \in 1..Len(cs) |-> lowerChar(cs[i])]

\* s.replace(/suffix$/, '')
replaceSuffix(cs, suffix) ==
  IF endsWith(cs, suffix) THEN SubSeq(cs, 1, Len(cs) - Len(suffix)) ELSE cs

Digits == <<"0", "1", "2", "3", "4", "5", "6", "7", "8", "9">>

IsDigit(c) == \E i \in 1..Len(Digits) : Digits[i] = c

digitValue(c) == (CHOOSE i \in 1..Len(Digits) : Digits[i] = c) - 1

\* The number of leading digits of cs from position i on.
RECURSIVE digitRun(_, _)
digitRun(cs, i) ==
  IF i <= Len(cs) /\ IsDigit(cs[i]) THEN 1 + digitRun(cs, i + 1) ELSE 0

\* The value of the digits cs[i..i+len-1] read as a decimal numeral.
RECURSIVE digitsValue(_, _, _)
digitsValue(cs, i, len) ==
  IF len = 0 THEN 0
  ELSE 10 * digitsValue(cs, i, len - 1) + digitValue(cs[i + len - 1])

RECURSIVE pow10(_)
pow10(k) == IF k = 0 THEN 1 ELSE 10 * pow10(k - 1)

\* The number the numeral cs[start..] denotes, ni integer digits and nf fraction
\* digits long; NaN when it has no digit.
magnitude(cs, start, ni, nf) ==
  IF ni = 0 /\ nf = 0 THEN NaN
  ELSE JSAdd(Num(digitsValue(cs, start, ni)),
             Rat(digitsValue(cs, start + ni + 1, nf), pow10(nf)))

\* The number of fraction digits when cs[dot] is the decimal point.
fractionRun(cs, dot) ==
  IF dot <= Len(cs) /\ cs[dot] = "." THEN digitRun(cs, dot + 1) ELSE 0

unsignedFrom(cs, start, ni) == magnitude(cs, start, ni, fractionRun(cs, start + ni))

\* parseFloat of the characters of a string: an optional sign, digits, an optional
\* fraction; the longest such prefix is the number, and without one the result is
\* NaN.  (Leading blanks, exponents and "Infinity" are not in the strings used.)
parseFloatChars(cs) ==
  IF Len(cs) >= 1 /\ cs[1] = "-" THEN JSNeg(unsignedFrom(cs, 2, digitRun(cs, 2)))
  ELSE IF Len(cs) >= 1 /\ cs[1] = "+" THEN unsignedFrom(cs, 2, digitRun(cs, 2))
  ELSE unsignedFrom(cs, 1, digitRun(cs, 1))

\* A string value with the given text; parseFloat of its characters is computed
\* here, once, and kept in n/d.
numeralOf(str, parsed) == [t |-> "string", n |-> parsed.n, d |-> parsed.d, s |-> str]

Text(str) == numeralOf(str, parseFloatChars(chars[str]))

\* parseFloat(value) of a value that is not a number: the number a string's text
\* parses to; NaN for true, false and undefined, whose texts hold no digit.
parseFloat(v) ==
  IF v.t = "string" THEN [t |-> "number", n |-> v.n, d |-> v.d, s |-> ""] ELSE NaN

----------------------------------------------------------------------------
(* Project-type schemas (config.js).  A field keeps what the engine and    *)
(* the registry read: id, type and defaultValue (name, unit, group, min    *)
(* and max are display data).  A category that is an array is              *)
(* [isArray |-> TRUE, items |-> <<fields>>]; a schema without a            *)
(* categories object has categories.present = FALSE.                       *)

Field(id, type, defaultValue) ==
  [id |-> id, type |-> type, defaultValue |-> defaultValue]

Arr(items) == [isArray |-> TRUE, items |-> items]

NotArray == [isArray |-> FALSE, items |-> <<>>]

Categories(investment, revenue, operating, staffing) ==
  [present |-> TRUE, investment |-> Arr(investment), revenue |-> Arr(revenue),
   operating |-> Arr(operating), staffing |-> Arr(staffing)]

NoCategories ==
  [present |-> FALSE, investment |-> NotArray, revenue |-> NotArray,
   operating |-> NotArray, staffing |-> NotArray]

padelSchema ==
  [id |-> Str("padel"), name |-> Str("Padel Club"),
   description |-> "Padel court business with rental and coaching services",
   businessType |-> "booking",
   categories |-> Categories(
     \* investment
     << Field("ground", "currency", Num(50000)),
        Field("structure", "currency", Num(120000)),
        Field("courts", "number", Num(3)),
        Field("courtCost", "currency", Num(18000)),
        Field("amenities", "currency", Num(20000)) >>,
     \* revenue
     << Field("peakHours", "number", Num(4)),
        Field("peakRate", "currency", Num(40)),
        Field("peakUtil", "percentage", Num(70)),
        Field("offHours", "number", Num(2)),
        Field("offRate", "currency", Num(25)),
        Field("offUtil", "percentage", Num(35)),
        Field("days", "number", Num(7)),
        Field("weeks", "number", Num(52)) >>,
     \* operating
     << Field("utilities", "currency", Num(5000)),
        Field("insurance", "currency", Num(2500)),
        Field("maintenance", "currency", Num(3000)),
        Field("marketing", "currency", Num(4000)),
        Field("admin", "currency", Num(3500)),
        Field("cleaning", "currency", Num(2000)),
        Field("misc", "currency", Num(1000)) >>,
     \* staffing
     << Field("ftMgr", "number", Num(1)),
        Field("ftMgrSal", "currency", Num(35000)),
        Field("ftRec", "number", Num(1)),
        Field("ftRecSal", "currency", Num(21000)),
        Field("ftCoach", "number", Num(1)),
        Field("ftCoachSal", "currency", Num(25000)),
        Field("ptCoach", "number", Num(1)),
        Field("ptCoachSal", "currency", Num(12000)),
        Field("addStaff", "number", Num(0)),
        Field("addStaffSal", "currency", Num(0)) >>)]

gymSchema ==
  [id |-> Str("gym"), name |-> Str("Gym/Fitness Center"),
   description |-> "Fitness facility with membership-based revenue model",
   businessType |-> "member",
   categories |-> Categories(
     \* investment
     << Field("equipment", "currency", Num(35000)),
        Field("flooring", "currency", Num(8000)),
        Field("amenities", "currency", Num(6000)) >>,
     \* revenue
     << Field("weekMembers", "number", Num(60)),
        Field("weekFee", "currency", Num(20)),
        Field("monthMembers", "number", Num(30)),
        Field("monthFee", "currency", Num(50)),
        Field("annualMembers", "number", Num(12)),
        Field("annualFee", "currency", Num(450)),
        Field("rampUp", "boolean", Bool(FALSE)),
        Field("rampDuration", "number", Num(3)),
        Field("rampEffect", "percentage", Num(40)) >>,
     \* operating
     << Field("utilities", "currency", Num(2500)),
        Field("insurance", "currency", Num(1700)),
        Field("maintenance", "currency", Num(2000)),
        Field("marketing", "currency", Num(2500)),
        Field("admin", "currency", Num(2100)),
        Field("cleaning", "currency", Num(1200)),
        Field("misc", "currency", Num(800)) >>,
     \* staffing
     << Field("ftTrainer", "number", Num(1)),
        Field("ftTrainerSal", "currency", Num(22000)),
        Field("ptTrainer", "number", Num(1)),
        Field("ptTrainerSal", "currency", Num(9000)),
        Field("addStaff", "number", Num(0)),
        Field("addStaffSal", "currency", Num(0)) >>)]

conferenceSchema ==
  [id |-> Str("conference"), name |-> Str("Conference/Event"),
   description |-> "Event-based business with ticket sales and venue management",
   businessType |-> "event",
   categories |-> Categories(
     \* investment
     << Field("venue", "currency", Num(15000)),
        Field("equipment", "currency", Num(8000)),
        Field("technology", "currency", Num(5000)) >>,
     \* revenue
     << Field("capacity", "number", Num(200)),
        Field("ticketPrice", "currency", Num(150)),
        Field("occupancyRate", "percentage", Num(80)),
        Field("eventsPerYear", "number", Num(12)),
        Field("sponsorship", "currency", Num(10000)) >>,
     \* operating
     << Field("venueRental", "currency", Num(24000)),
        Field("catering", "currency", Num(2000)),
        Field("marketing", "currency", Num(8000)),
        Field("insurance", "currency", Num(2000)),
        Field("materials", "currency", Num(500)) >>,
     \* staffing
     << Field("eventManager", "number", Num(1)),
        Field("eventManagerSal", "currency", Num(40000)),
        Field("speakers", "currency", Num(3000)),
        Field("support", "number", Num(3)),
        Field("supportSal", "currency", Num(800)) >>)]

saasSchema ==
  [id |-> Str("saas"), name |-> Str("SaaS Platform"),
   description |-> "Software as a Service with subscription-based revenue",
   businessType |-> "member",
   categories |-> Categories(
     \* investment
     << Field("development", "currency", Num(50000)),
        Field("infrastructure", "currency", Num(10000)),
        Field("licenses", "currency", Num(5000)) >>,
     \* revenue
     << Field("basicUsers", "number", Num(100)),
        Field("basicPrice", "currency", Num(29)),
        Field("proUsers", "number", Num(50)),
        Field("proPrice", "currency", Num(79)),
        Field("churnRate", "percentage", Num(5)),
        Field("growthRate", "percentage", Num(10)) >>,
     \* operating
     << Field("hosting", "currency", Num(2000)),
        Field("support", "currency", Num(15000)),
        Field("marketing", "currency", Num(20000)),
        Field("maintenance", "currency", Num(8000)) >>,
     \* staffing
     << Field("developers", "number", Num(2)),
        Field("developerSal", "currency", Num(60000)),
        Field("customer", "number", Num(1)),
        Field("customerSal", "currency", Num(45000)) >>)]

ecommerceSchema ==
  [id |-> Str("ecommerce"), name |-> Str("E-commerce Store"),
   description |-> "Online retail business with product sales",
   businessType |-> "product",
   categories |-> Categories(
     \* investment
     << Field("website", "currency", Num(15000)),
        Field("inventory", "currency", Num(30000)),
        Field("warehouse", "currency", Num(10000)) >>,
     \* revenue
     << Field("avgOrderValue", "currency", Num(75)),
        Field("ordersPerMonth", "number", Num(500)),
        Field("grossMargin", "percentage", Num(40)),
        Field("returnRate", "percentage", Num(8)) >>,
     \* operating
     << Field("hosting", "currency", Num(2000)),
        Field("shipping", "currency", Num(8000)),
        Field("payment", "currency", Num(3000)),
        Field("marketing", "currency", Num(15000)),
        Field("warehouse", "currency", Num(12000)) >>,
     \* staffing
     << Field("manager", "number", Num(1)),
        Field("managerSal", "currency", Num(35000)),
        Field("fulfillment", "number", Num(2)),
        Field("fulfillmentSal", "currency", Num(25000)) >>)]

consultingSchema ==
  [id |-> Str("consulting"), name |-> Str("Consulting Services"),
   description |-> "Professional services with hourly or project-based billing",
   businessType |-> "service",
   categories |-> Categories(
     \* investment
     << Field("office", "currency", Num(8000)),
        Field("equipment", "currency", Num(5000)),
        Field("certification", "currency", Num(3000)) >>,
     \* revenue
     << Field("hourlyRate", "currency", Num(120)),
        Field("billableHours", "number", Num(30)),
        Field("utilizationRate", "percentage", Num(75)),
        Field("weeksPerYear", "number", Num(48)) >>,
     \* operating
     << Field("office", "currency", Num(8000)),
        Field("insurance", "currency", Num(2500)),
        Field("marketing", "currency", Num(5000)),
        Field("professional", "currency", Num(3000)),
        Field("equipment", "currency", Num(1000)) >>,
     \* staffing
     << Field("consultant", "number", Num(1)),
        Field("consultantSal", "currency", Num(70000)),
        Field("junior", "number", Num(1)),
        Field("juniorSal", "currency", Num(40000)) >>)]

genericSchema ==
  [id |-> Str("generic"), name |-> Str("Generic Business"),
   description |-> "Customizable business model template",
   businessType |-> "hybrid",
   categories |-> Categories(
     \* investment
     << Field("equipment", "currency", Num(0)),
        Field("infrastructure", "currency", Num(0)),
        Field("other", "currency", Num(0)) >>,
     \* revenue
     << Field("primaryRevenue", "currency", Num(0)),
        Field("secondaryRevenue", "currency", Num(0)) >>,
     \* operating
     << Field("utilities", "currency", Num(0)),
        Field("insurance", "currency", Num(0)),
        Field("maintenance", "currency", Num(0)),
        Field("marketing", "currency", Num(0)),
        Field("other", "currency", Num(0)) >>,
     \* staffing
     << Field("management", "number", Num(0)),
        Field("managementSal", "currency", Num(0)),
        Field("operational", "number", Num(0)),
        Field("operationalSal", "currency", Num(0)) >>)]
DEFAULT_PROJECT_TYPES ==
  [padel |-> padelSchema, gym |-> gymSchema, conference |-> conferenceSchema,
   saas |-> saasSchema, ecommerce |-> ecommerceSchema,
   consulting |-> consultingSchema, generic |-> genericSchema]

BuiltinIds == DOMAIN DEFAULT_PROJECT_TYPES

----------------------------------------------------------------------------
(* ProjectTypeManager (config.js).  customTypes maps an id to a schema;    *)
(* storage is localStorage's 'customProjectTypes' item: <<>> when absent,  *)
(* else <<the parsed JSON text>>.  A method is an operator from the        *)
(* collection to an outcome: the error thrown ("" for none), the           *)
(* collection afterwards, whether saveCustomTypes ran, the value returned. *)

Null == <<>>

Some(x) == <<x>>

EmptyMap == [k \in {} |-> Undefined]

Outcome(error, ct, saved, value) ==
  [error |-> error, customTypes |-> ct, saved |-> saved, value |-> value]

\* JSON.parse(JSON.stringify(v)) of a JavaScript value: a non-finite number comes
\* back as null, which the model keeps as undefined (both are falsy non-numbers
\* wherever a default is read).
jsonValue(v) == IF v.t = "number" /\ v.d = 0 THEN Undefined ELSE v

jsonCategory(c) ==
  [c EXCEPT !.items =
     [i \in 1..Len(c.items) |->
        [c.items[i] EXCEPT !.defaultValue = jsonValue(c.items[i].defaultValue)]]]

\* JSON.parse(JSON.stringify(schema)): the deep clone
jsonClone(schema) ==
  [schema EXCEPT !.id = jsonValue(schema.id), !.name = jsonValue(schema.name),
     !.categories =
       [present |-> schema.categories.present,
        investment |-> jsonCategory(schema.categories.investment),
        revenue |-> jsonCategory(schema.categories.revenue),
        operating |-> jsonCategory(schema.categories.operating),
        staffing |-> jsonCategory(schema.categories.staffing)]]

jsonCloneMap(ct) == [k \in DOMAIN ct |-> jsonClone(ct[k])]

\* loadCustomTypes: the parsed item, {} when there is none
loadCustomTypes(st) == IF st = Null THEN EmptyMap ELSE st[1]

\* saveCustomTypes: the item written
saveCustomTypes(ct) == Some(jsonCloneMap(ct))

\* getAllProjectTypes: { ...DEFAULT_PROJECT_TYPES, ...customTypes }
getAllProjectTypes(ct) == ct @@ DEFAULT_PROJECT_TYPES

\* getProjectType: allTypes[id] || null
getProjectType(ct, id) ==
  LET allTypes == getAllProjectTypes(ct)
  IN  IF id \in DOMAIN allTypes THEN Some(allTypes[id]) ELSE Null

requiredCategories == <<"investment", "revenue", "operating", "staffing">>

categoryOf(categories, categoryType) ==
  CASE categoryType = "investment" -> categories.investment
    [] categoryType = "revenue" -> categories.revenue
    [] categoryType = "operating" -> categories.operating
    [] categoryType = "staffing" -> categories.staffing

\* validateProjectTypeConfig: the message of the error thrown, "" when none
validateProjectTypeConfig(config) ==
  IF ~Truthy(config.id) \/ typeof(config.id) # "string"
  THEN "Project type must have a valid ID"
  ELSE IF ~Truthy(config.name) \/ typeof(config.name) # "string"
  THEN "Project type must have a valid name"
  ELSE IF ~config.categories.present
  THEN "Project type must have categories"
  ELSE LET bad == {i \in 1..Len(requiredCategories) :
                     ~categoryOf(config.categories, requiredCategories[i]).isArray}
       IN  IF bad = {} THEN ""
           ELSE "Project type must have " \o
                requiredCategories[CHOOSE i \in bad : \A j \in bad : i <= j] \o
                " category as array"

\* Faulty variants of setProjectType: one without the reserved-id check, one that
\* writes the entry before it validates.
setProjectType_NoReservedCheck(ct, id, config) ==
  LET invalid == validateProjectTypeConfig(config)
  IN  IF invalid # ""
      THEN Outcome(invalid, ct, FALSE, Undefined)
      ELSE Outcome("", (id :> config) @@ ct, TRUE, Undefined)

setProjectType_WriteThenValidate(ct, id, config) ==
  IF id \in DOMAIN DEFAULT_PROJECT_TYPES
  THEN Outcome("Cannot override default project type", ct, FALSE, Undefined)
  ELSE LET invalid == validateProjectTypeConfig(config)
       IN  IF invalid # ""
           THEN Outcome(invalid, (id :> config) @@ ct, FALSE, Undefined)
           ELSE Outcome("", (id :> config) @@ ct, TRUE, Undefined)

setProjectType(ct, id, config) ==
  IF id \in DOMAIN DEFAULT_PROJECT_TYPES
  THEN Outcome("Cannot override default project type", ct, FALSE, Undefined)
  ELSE LET invalid == validateProjectTypeConfig(config)
       IN  IF invalid # ""
           THEN Outcome(invalid, ct, FALSE, Undefined)
           ELSE Outcome("", (id :> config) @@ ct, TRUE, Undefined)

deleteProjectType(ct, id) ==
  IF id \in DOMAIN DEFAULT_PROJECT_TYPES
  THEN Outcome("Cannot delete default project type", ct, FALSE, Undefined)
  ELSE Outcome("", [k \in DOMAIN ct \ {id} |-> ct[k]], TRUE, Undefined)

\* A faulty variant of createFromTemplate: the clone keeps the template's id.
createFromTemplate_KeepsId(ct, templateId, newId, newName) ==
  LET template == getProjectType(ct, templateId)
  IN  IF template = Null
      THEN Outcome("Template not found", ct, FALSE, Undefined)
      ELSE LET newConfig ==
                 [jsonClone(template[1]) EXCEPT
                    !.name = newName,
                    !.description =
                      "Custom " \o newName.s \o " based on " \o template[1].name.s]
               set == setProjectType(ct, newId, newConfig)
           IN  IF set.error # "" THEN set
               ELSE [set EXCEPT !.value = newConfig]

\* createFromTemplate; the description written is
\* `Custom ${newName} based on ${template.name}`.
createFromTemplate(ct, templateId, newId, newName) ==
  LET template == getProjectType(ct, templateId)
  IN  IF template = Null
      THEN Outcome("Template not found", ct, FALSE, Undefined)
      ELSE LET newConfig ==
                 [jsonClone(template[1]) EXCEPT
                    !.id = Str(newId), !.name = newName,
                    !.description =
                      "Custom " \o newName.s \o " based on " \o template[1].name.s]
               set == setProjectType(ct, newId, newConfig)
           IN  IF set.error # "" THEN set
               ELSE [set EXCEPT !.value = newConfig]

\* A faulty variant of exportConfiguration: the file carries no user template.
exportConfiguration_NoCustom(ct) ==
  [default |-> DEFAULT_PROJECT_TYPES, hasCustom |-> TRUE, custom |-> EmptyMap]

\* exportConfiguration (exportDate, a timestamp, is left out)
exportConfiguration(ct) ==
  [default |-> DEFAULT_PROJECT_TYPES, hasCustom |-> TRUE, custom |-> ct]

\* importConfiguration.  The loop validates every entry and only logs the ones
\* that fail; then the whole of configData.custom becomes the collection.  The
\* value of the outcome is the set of ids logged as skipped.
importConfiguration(ct, configData) ==
  IF configData.hasCustom
  THEN LET skipped == {id \in DOMAIN configData.custom :
                         validateProjectTypeConfig(configData.custom[id]) # ""}
       IN  Outcome("", configData.custom, TRUE, skipped)
  ELSE Outcome("", ct, FALSE, {})

----------------------------------------------------------------------------
(* PLCalculationEngine.  A value bag maps field ids to JavaScript values.  *)

\* data[key], undefined when the bag has no such key
prop(data, key) == IF key \in DOMAIN data THEN data[key] ELSE Undefined

\* getValue(data, key, defaultValue)
getValue(data, key, defaultValue) ==
  IF key \in DOMAIN data
  THEN LET value == data[key]
       IN  IF typeof(value) = "number" THEN value
           ELSE Or(parseFloat(value), defaultValue)
  ELSE defaultValue

\* a * b * c * ... from left to right
RECURSIVE product(_)
product(xs) ==
  IF Len(xs) = 1 THEN ToNumber(xs[1])
  ELSE JSMul(product(SubSeq(xs, 1, Len(xs) - 1)), xs[Len(xs)])

percent(v) == JSDiv(v, Num(100))

\* A faulty variant of calculatePadelRevenue: the court count multiplies the
\* peak slots only.
calculatePadelRevenue_CourtsPeakOnly(config, data) ==
  LET peakHours == getValue(data, "peakHours", Num(0))
      peakRate == getValue(data, "peakRate", Num(0))
      peakUtil == percent(getValue(data, "peakUtil", Num(0)))
      offHours == getValue(data, "offHours", Num(0))
      offRate == getValue(data, "offRate", Num(0))
      offUtil == percent(getValue(data, "offUtil", Num(0)))
      courts == getValue(data, "courts", Num(1))
      days == getValue(data, "days", Num(7))
      weeks == getValue(data, "weeks", Num(52))
      peakRevenue == product(<<peakHours, peakRate, days, weeks, courts, peakUtil>>)
      offRevenue == product(<<offHours, offRate, days, weeks, offUtil>>)
  IN  JSAdd(peakRevenue, offRevenue)

calculatePadelRevenue(config, data) ==
  LET peakHours == getValue(data, "peakHours", Num(0))
      peakRate == getValue(data, "peakRate", Num(0))
      peakUtil == percent(getValue(data, "peakUtil", Num(0)))
      offHours == getValue(data, "offHours", Num(0))
      offRate == getValue(data, "offRate", Num(0))
      offUtil == percent(getValue(data, "offUtil", Num(0)))
      courts == getValue(data, "courts", Num(1))
      days == getValue(data, "days", Num(7))
      weeks == getValue(data, "weeks", Num(52))
      peakRevenue == product(<<peakHours, peakRate, days, weeks, courts, peakUtil>>)
      offRevenue == product(<<offHours, offRate, days, weeks, courts, offUtil>>)
  IN  JSAdd(peakRevenue, offRevenue)

\* A faulty variant of rampLoop: the loop stops before the twelfth month.
RECURSIVE rampLoop_ElevenMonths(_, _, _, _)
rampLoop_ElevenMonths(month, rampDuration, monthlyBase, rampEffect) ==
  IF month >= 12 THEN Num(0)
  ELSE JSAdd(IF JSLe(Num(month), rampDuration)
             THEN JSMul(monthlyBase, rampEffect)
             ELSE monthlyBase,
             rampLoop_ElevenMonths(month + 1, rampDuration, monthlyBase, rampEffect))

\* the loop over month = from..12 of calculateGymRevenue
RECURSIVE rampLoop(_, _, _, _)
rampLoop(month, rampDuration, monthlyBase, rampEffect) ==
  IF month > 12 THEN Num(0)
  ELSE JSAdd(IF JSLe(Num(month), rampDuration)
             THEN JSMul(monthlyBase, rampEffect)
             ELSE monthlyBase,
             rampLoop(month + 1, rampDuration, monthlyBase, rampEffect))

calculateGymRevenue(config, data) ==
  LET weeklyRevenue == product(<<getValue(data, "weekMembers", Num(0)),
                                 getValue(data, "weekFee", Num(0)), Num(52)>>)
      monthlyRevenue == product(<<getValue(data, "monthMembers", Num(0)),
                                  getValue(data, "monthFee", Num(0)), Num(12)>>)
      annualRevenue == JSMul(getValue(data, "annualMembers", Num(0)),
                             getValue(data, "annualFee", Num(0)))
      totalRevenue == JSAdd(JSAdd(weeklyRevenue, monthlyRevenue), annualRevenue)
  IN  IF Truthy(getValue(data, "rampUp", Bool(FALSE)))
      THEN LET rampDuration == getValue(data, "rampDuration", Num(0))
               rampEffect == percent(getValue(data, "rampEffect", Num(100)))
               monthlyBase == JSDiv(totalRevenue, Num(12))
           IN  rampLoop(1, rampDuration, monthlyBase, rampEffect)
      ELSE totalRevenue

\* A faulty variant of genericLoop: the id is matched as it is spelled.
RECURSIVE genericLoop_CaseSensitive(_, _, _)
genericLoop_CaseSensitive(config, i, data) ==
  IF i > Len(config) THEN Num(0)
  ELSE LET field == config[i]
           rest == genericLoop_CaseSensitive(config, i + 1, data)
       IN  IF field.type = "currency" /\ includes(chars[field.id], chars["revenue"])
           THEN JSAdd(getValue(data, field.id, Or(field.defaultValue, Num(0))), rest)
           ELSE rest

\* the loop of calculateGenericRevenue over config[i..]
RECURSIVE genericLoop(_, _, _)
genericLoop(config, i, data) ==
  IF i > Len(config) THEN Num(0)
  ELSE LET field == config[i]
           rest == genericLoop(config, i + 1, data)
       IN  IF field.type = "currency"
              /\ includes(toLowerCase(chars[field.id]), chars["revenue"])
           THEN JSAdd(getValue(data, field.id, Or(field.defaultValue, Num(0))), rest)
           ELSE rest

calculateGenericRevenue(config, data) == genericLoop(config, 1, data)

calculateEventRevenue(config, data) ==
  LET capacity == getValue(data, "capacity", Num(0))
      ticketPrice == getValue(data, "ticketPrice", Num(0))
      occupancyRate == percent(getValue(data, "occupancyRate", Num(100)))
      eventsPerYear == getValue(data, "eventsPerYear", Num(1))
      sponsorship == getValue(data, "sponsorship", Num(0))
      ticketRevenue == product(<<capacity, ticketPrice, occupancyRate, eventsPerYear>>)
  IN  JSAdd(ticketRevenue, sponsorship)

calculateSaaSRevenue(config, data) ==
  LET basicUsers == getValue(data, "basicUsers", Num(0))
      basicPrice == getValue(data, "basicPrice", Num(0))
      proUsers == getValue(data, "proUsers", Num(0))
      proPrice == getValue(data, "proPrice", Num(0))
      churnRate == percent(getValue(data, "churnRate", Num(0)))
      keep == JSSub(Num(1), JSDiv(churnRate, Num(2)))
      avgBasicUsers == JSMul(basicUsers, keep)
      avgProUsers == JSMul(proUsers, keep)
      monthlyRevenue == JSAdd(JSMul(avgBasicUsers, basicPrice),
                              JSMul(avgProUsers, proPrice))
  IN  JSMul(monthlyRevenue, Num(12))

calculateEcommerceRevenue(config, data) ==
  LET avgOrderValue == getValue(data, "avgOrderValue", Num(0))
      ordersPerMonth == getValue(data, "ordersPerMonth", Num(0))
      grossMargin == percent(getValue(data, "grossMargin", Num(100)))
      returnRate == percent(getValue(data, "returnRate", Num(0)))
      grossRevenue == product(<<avgOrderValue, ordersPerMonth, Num(12)>>)
  IN  product(<<grossRevenue, JSSub(Num(1), returnRate), grossMargin>>)

calculateConsultingRevenue(config, data) ==
  LET hourlyRate == getValue(data, "hourlyRate", Num(0))
      billableHours == getValue(data, "billableHours", Num(0))
      utilizationRate == percent(getValue(data, "utilizationRate", Num(100)))
      weeksPerYear == getValue(data, "weeksPerYear", Num(50))
      totalBillableHours == product(<<billableHours, weeksPerYear, utilizationRate>>)
  IN  JSMul(totalBillableHours, hourlyRate)

calculateEducationRevenue(config, data) ==
  product(<<getValue(data, "studentCapacity", Num(0)),
            getValue(data, "tuitionFee", Num(0)),
            getValue(data, "sessionsPerYear", Num(1)),
            percent(getValue(data, "occupancyRate", Num(100)))>>)

calculateRentalRevenue(config, data) ==
  LET vehicles == getValue(data, "vehicles", Num(0))
      dailyRate == getValue(data, "dailyRate", Num(0))
      utilizationRate == percent(getValue(data, "utilizationRate", Num(100)))
      totalPossibleDays == JSMul(vehicles, Num(365))
      utilizedDays == JSMul(totalPossibleDays, utilizationRate)
  IN  JSMul(utilizedDays, dailyRate)

calculatePromotionRevenue(config, data) ==
  LET merchants == getValue(data, "merchants", Num(0))
      avgDealValue == getValue(data, "avgDealValue", Num(0))
      dealsPerMonth == getValue(data, "dealsPerMonth", Num(0))
      commission == percent(getValue(data, "commission", Num(0)))
      redemptionRate == percent(getValue(data, "redemptionRate", Num(100)))
      monthlyDeals == JSMul(merchants, dealsPerMonth)
      redeemedDeals == JSMul(monthlyDeals, redemptionRate)
      monthlyRevenue == product(<<redeemedDeals, avgDealValue, commission>>)
  IN  JSMul(monthlyRevenue, Num(12))

calculateRealEstateRevenue(config, data) ==
  LET monthlyRent == getValue(data, "monthlyRent", Num(0))
      occupancyRate == percent(getValue(data, "occupancyRate", Num(100)))
      rentIncrease == percent(getValue(data, "rentIncrease", Num(0)))
      otherIncome == getValue(data, "otherIncome", Num(0))
      baseAnnualRent == product(<<monthlyRent, Num(12), occupancyRate>>)
      adjustedAnnualRent ==
        JSMul(baseAnnualRent, JSAdd(Num(1), JSDiv(rentIncrease, Num(2))))
  IN  JSAdd(adjustedAnnualRent, otherIncome)

\* A faulty variant of calculateCapExRevenue: the benefits are halved whether
\* or not there is a ramp-up period.
calculateCapExRevenue_AlwaysHalved(config, data) ==
  LET costSavings == getValue(data, "costSavings", Num(0))
      revenueIncrease == getValue(data, "revenueIncrease", Num(0))
      implementationTime == getValue(data, "implementationTime", Num(6))
      rampUpPeriod == getValue(data, "rampUpPeriod", Num(3))
      totalImplementationTime == JSAdd(implementationTime, rampUpPeriod)
  IN  IF JSGe(totalImplementationTime, Num(12)) THEN Num(0)
      ELSE LET monthsWithBenefits == JSSub(Num(12), totalImplementationTime)
           IN  product(<<JSAdd(costSavings, revenueIncrease),
                         JSDiv(monthsWithBenefits, Num(12)), Rat(1, 2)>>)

calculateCapExRevenue(config, data) ==
  LET costSavings == getValue(data, "costSavings", Num(0))
      revenueIncrease == getValue(data, "revenueIncrease", Num(0))
      implementationTime == getValue(data, "implementationTime", Num(6))
      rampUpPeriod == getValue(data, "rampUpPeriod", Num(3))
      totalImplementationTime == JSAdd(implementationTime, rampUpPeriod)
  IN  IF JSGe(totalImplementationTime, Num(12)) THEN Num(0)
      ELSE LET monthsWithBenefits == JSSub(Num(12), totalImplementationTime)
               rampUpFactor == IF JSGt(rampUpPeriod, Num(0)) THEN Rat(1, 2) ELSE Num(1)
           IN  product(<<JSAdd(costSavings, revenueIncrease),
                         JSDiv(monthsWithBenefits, Num(12)), rampUpFactor>>)

calculateSubscriptionRevenue(config, data) ==
  LET basicSubs == getValue(data, "basicSubs", Num(0))
      basicPrice == getValue(data, "basicPrice", Num(0))
      premiumSubs == getValue(data, "premiumSubs", Num(0))
      premiumPrice == getValue(data, "premiumPrice", Num(0))
      churnRate == percent(getValue(data, "churnRate", Num(0)))
      growthRate == percent(getValue(data, "growthRate", Num(0)))
      effect == JSAdd(JSSub(Num(1), churnRate), growthRate)
      effectiveBasicSubs == JSMul(basicSubs, effect)
      effectivePremiumSubs == JSMul(premiumSubs, effect)
  IN  JSAdd(product(<<effectiveBasicSubs, basicPrice, Num(12)>>),
            product(<<effectivePremiumSubs, premiumPrice, Num(12)>>))

calculateLicensingRevenue(config, data) ==
  LET licensees == getValue(data, "licensees", Num(0))
      royaltyRate == percent(getValue(data, "royaltyRate", Num(0)))
      licenseeRevenue == getValue(data, "licenseeRevenue", Num(0))
      upfrontFees == getValue(data, "upfrontFees", Num(0))
      royaltyRevenue == product(<<licensees, licenseeRevenue, royaltyRate>>)
      totalUpfrontFees == JSMul(licensees, upfrontFees)
  IN  JSAdd(royaltyRevenue, totalUpfrontFees)

calculatePartnershipRevenue(config, data) ==
  LET partners == getValue(data, "partners", Num(0))
      avgPartnerRevenue == getValue(data, "avgPartnerRevenue", Num(0))
      revenueShare == percent(getValue(data, "revenueShare", Num(0)))
      partnerGrowth == percent(getValue(data, "partnerGrowth", Num(0)))
      effectivePartnerRevenue == JSMul(avgPartnerRevenue, JSAdd(Num(1), partnerGrowth))
  IN  product(<<partners, effectivePartnerRevenue, revenueShare>>)

calculateInvestmentRevenue(config, data) ==
  LET initialCapital == getValue(data, "initialCapital", Num(0))
      dividendYield == percent(getValue(data, "dividendYield", Num(0)))
      capitalGains == percent(getValue(data, "capitalGains", Num(0)))
  IN  JSAdd(JSMul(initialCapital, dividendYield), JSMul(initialCapital, capitalGains))

calculateOperationalRevenue(config, data) ==
  LET costSavings == getValue(data, "costSavings", Num(0))
      efficiencyGain == percent(getValue(data, "efficiencyGain", Num(0)))
      timeReduction == percent(getValue(data, "timeReduction", Num(0)))
      qualityImprovement == percent(getValue(data, "qualityImprovement", Num(0)))
      additionalBenefits ==
        product(<<costSavings,
                  JSAdd(JSAdd(efficiencyGain, timeReduction), qualityImprovement),
                  Rat(1, 2)>>)
  IN  JSAdd(costSavings, additionalBenefits)

calculateRecurringRevenue(config, data) ==
  LET contracts == getValue(data, "contracts", Num(0))
      avgContractValue == getValue(data, "avgContractValue", Num(0))
      renewalRate == percent(getValue(data, "renewalRate", Num(0)))
      growthRate == percent(getValue(data, "growthRate", Num(0)))
      effectiveContracts ==
        product(<<contracts, renewalRate, JSAdd(Num(1), growthRate)>>)
  IN  product(<<effectiveContracts, avgContractValue, Num(12)>>)

\* The ids calculateRevenue dispatches on without reading the revenue fields.
BespokeIds ==
  {"padel", "gym", "conference", "saas", "ecommerce", "consulting", "workshop",
   "carRental", "couponPlatform", "realEstate", "capexInvestment",
   "subscriptionService", "licensingBusiness", "partnershipBusiness",
   "investmentPortfolio", "operationalOptimization", "recurringService"}

\* calculateRevenue: the annual figure by the formula of projectType.id
annualRevenueOf(projectType, data) ==
  LET revenueConfig == projectType.categories.revenue.items
      id == projectType.id
  IN  CASE id = Str("padel") -> calculatePadelRevenue(revenueConfig, data)
        [] id = Str("gym") -> calculateGymRevenue(revenueConfig, data)
        [] id = Str("conference") -> calculateEventRevenue(revenueConfig, data)
        [] id = Str("saas") -> calculateSaaSRevenue(revenueConfig, data)
        [] id = Str("ecommerce") -> calculateEcommerceRevenue(revenueConfig, data)
        [] id = Str("consulting") -> calculateConsultingRevenue(revenueConfig, data)
        [] id = Str("workshop") -> calculateEducationRevenue(revenueConfig, data)
        [] id = Str("carRental") -> calculateRentalRevenue(revenueConfig, data)
        [] id = Str("couponPlatform") -> calculatePromotionRevenue(revenueConfig, data)
        [] id = Str("realEstate") -> calculateRealEstateRevenue(revenueConfig, data)
        [] id = Str("capexInvestment") -> calculateCapExRevenue(revenueConfig, data)
        [] id = Str("subscriptionService") ->
             calculateSubscriptionRevenue(revenueConfig, data)
        [] id = Str("licensingBusiness") -> calculateLicensingRevenue(revenueConfig, data)
        [] id = Str("partnershipBusiness") ->
             calculatePartnershipRevenue(revenueConfig, data)
        [] id = Str("investmentPortfolio") ->
             calculateInvestmentRevenue(revenueConfig, data)
        [] id = Str("operationalOptimization") ->
             calculateOperationalRevenue(revenueConfig, data)
        [] id = Str("recurringService") -> calculateRecurringRevenue(revenueConfig, data)
        [] OTHER -> calculateGenericRevenue(revenueConfig, data)

\* the object calculateRevenue returns for an annual figure
revenueFigures(annualRevenue) ==
  [annual |-> annualRevenue,
   monthly |-> JSDiv(annualRevenue, Num(12)),
   daily |-> JSDiv(annualRevenue, Num(365))]

calculateRevenue(projectType, data) == revenueFigures(annualRevenueOf(projectType, data))

\* the loop of calculateOperatingCosts over operatingConfig[i..]
RECURSIVE operatingLoop(_, _, _)
operatingLoop(operatingConfig, i, data) ==
  IF i > Len(operatingConfig) THEN Num(0)
  ELSE LET field == operatingConfig[i]
           rest == operatingLoop(operatingConfig, i + 1, data)
           cost == getValue(data, field.id, Or(field.defaultValue, Num(0)))
       IN  IF field.type = "currency"
           THEN JSAdd(IF includes(chars[field.id], chars["event"])
                         /\ Truthy(prop(data, "eventsPerYear"))
                      THEN JSMul(cost, getValue(data, "eventsPerYear", Num(1)))
                      ELSE cost,
                      rest)
           ELSE rest

calculateOperatingCosts(operatingConfig, data) == operatingLoop(operatingConfig, 1, data)

\* field.id.replace(/Sal$/, '').replace(/Rate$/, '')
baseNameOf(id) == replaceSuffix(replaceSuffix(chars[id], chars["Sal"]), chars["Rate"])

\* the salary a rate field contributes (the first branch of the loop's body)
salaryOf(field, data) ==
  LET s0 == getValue(data, field.id, Or(field.defaultValue, Num(0)))
      s1 == IF includes(chars[field.id], chars["event"])
               /\ Truthy(prop(data, "eventsPerYear"))
            THEN JSMul(s0, getValue(data, "eventsPerYear", Num(1)))
            ELSE s0
      s2 == IF field.id = "managementFee" /\ Truthy(prop(data, "propertyManager"))
            THEN LET monthlyRent == getValue(data, "monthlyRent", Num(0))
                     occupancyRate == percent(getValue(data, "occupancyRate", Num(100)))
                     managementFeePercent ==
                       percent(getValue(data, "managementFee", Num(0)))
                 IN  IF Truthy(getValue(data, "propertyManager", Bool(FALSE)))
                     THEN product(<<monthlyRent, Num(12), occupancyRate,
                                    managementFeePercent>>)
                     ELSE Num(0)
            ELSE s1
      s3 == IF field.id = "handymanRate"
            THEN product(<<s2, getValue(data, "handymanHours", Num(0)), Num(12)>>)
            ELSE s2
      s4 == IF field.id = "pmRate"
            THEN JSMul(s3, getValue(data, "projectManager", Num(0)))
            ELSE s3
      s5 == IF field.id = "techRate"
            THEN JSMul(s4, getValue(data, "technicalStaff", Num(0)))
            ELSE s4
  IN  s5

\* The roles map after the fields staffingConfig[1..i]: base name -> count, salary.
RECURSIVE rolesAfter(_, _, _)
rolesAfter(staffingConfig, i, data) ==
  IF i = 0 THEN [b \in {} |-> [count |-> Num(0), salary |-> Num(0)]]
  ELSE LET field == staffingConfig[i]
           baseName == baseNameOf(field.id)
           before == rolesAfter(staffingConfig, i - 1, data)
           roles == IF baseName \in DOMAIN before THEN before
                    ELSE (baseName :> [count |-> Num(0), salary |-> Num(0)]) @@ before
           cs == chars[field.id]
       IN  IF endsWith(cs, chars["Sal"]) \/ includes(cs, chars["Salary"])
              \/ endsWith(cs, chars["Rate"])
           THEN [roles EXCEPT ![baseName].salary = salaryOf(field, data)]
           ELSE IF field.type = "number"
           THEN [roles EXCEPT ![baseName].count =
                   getValue(data, field.id, Or(field.defaultValue, Num(0)))]
           ELSE IF field.type = "boolean"
           THEN [roles EXCEPT ![baseName].count =
                   IF Truthy(getValue(data, field.id, Bool(FALSE))) THEN Num(1) ELSE Num(0)]
           ELSE roles

skippedRoles ==
  {chars["managementFee"], chars["handymanRate"], chars["pmRate"], chars["techRate"]}

\* the second loop of calculateStaffingCosts, over the roles named in names
RECURSIVE rolesTotal(_, _)
rolesTotal(roles, names) ==
  IF names = {} THEN Num(0)
  ELSE LET roleName == CHOOSE r \in names : TRUE
           role == roles[roleName]
           rest == rolesTotal(roles, names \ {roleName})
       IN  IF roleName \in skippedRoles THEN rest
           ELSE IF roleName = chars["ongoingStaff"] THEN JSAdd(role.salary, rest)
           ELSE JSAdd(JSMul(role.count, role.salary), rest)

\* the total of calculateStaffingCosts once the roles map is built: the CapEx
\* branch when data.projectManager is defined, the sum over the roles otherwise
staffingTotal(roles, data) ==
  LET pmCost == JSMul(getValue(data, "projectManager", Num(0)),
                      getValue(data, "pmRate", Num(0)))
      techCost == JSMul(getValue(data, "technicalStaff", Num(0)),
                        getValue(data, "techRate", Num(0)))
      ongoingCost == getValue(data, "ongoingStaff", Num(0))
  IN  IF "projectManager" \in DOMAIN data
      THEN JSAdd(JSAdd(pmCost, techCost), ongoingCost)
      ELSE rolesTotal(roles, DOMAIN roles)

calculateStaffingCosts(staffingConfig, data) ==
  staffingTotal(rolesAfter(staffingConfig, Len(staffingConfig), data), data)

\* A faulty variant of costFigures: staffing is left out of the annual total.
costFigures_OperatingOnly(operatingCosts, staffingCosts) ==
  [annual |-> operatingCosts, monthly |-> JSDiv(operatingCosts, Num(12)),
   operating |-> operatingCosts, staffing |-> staffingCosts]

\* the object calculateCosts returns for the two totals
costFigures(operatingCosts, staffingCosts) ==
  [annual |-> JSAdd(operatingCosts, staffingCosts),
   monthly |-> JSDiv(JSAdd(operatingCosts, staffingCosts), Num(12)),
   operating |-> operatingCosts, staffing |-> staffingCosts]

calculateCosts(projectType, data) ==
  costFigures(calculateOperatingCosts(projectType.categories.operating.items, data),
              calculateStaffingCosts(projectType.categories.staffing.items, data))

\* the loop of calculateInvestment over the investment fields [i..]
RECURSIVE investmentLoop(_, _, _)
investmentLoop(config, i, data) ==
  IF i > Len(config) THEN Num(0)
  ELSE LET field == config[i]
           rest == investmentLoop(config, i + 1, data)
           value == getValue(data, field.id, Or(field.defaultValue, Num(0)))
       IN  IF field.type = "currency"
           THEN JSAdd(IF field.id = "courtCost" /\ Truthy(prop(data, "courts"))
                      THEN JSMul(value, getValue(data, "courts", Num(1)))
                      ELSE value,
                      rest)
           ELSE rest

calculateInvestment(projectType, data) ==
  investmentLoop(projectType.categories.investment.items, 1, data)

\* A faulty variant of calculateROI: no guard on investment <= 0.
calculateROI_NoGuard(investment, annualProfit) ==
  [paybackYears |->
     IF JSGt(annualProfit, Num(0))
     THEN MathCeil(JSDiv(investment, annualProfit)) ELSE Infinity,
   roiPercentage |-> JSMul(JSDiv(annualProfit, investment), Num(100)),
   breakEvenMonth |->
     IF JSGt(annualProfit, Num(0))
     THEN MathCeil(JSDiv(investment, JSDiv(annualProfit, Num(12))))
     ELSE Infinity,
   investment |-> investment, annualProfit |-> annualProfit]

\* A faulty variant of calculateROI: the periods are rounded down.
calculateROI_Floor(investment, annualProfit) ==
  IF JSLe(investment, Num(0))
  THEN [paybackYears |-> Infinity, roiPercentage |-> Num(0),
        breakEvenMonth |-> Infinity, investment |-> Undefined,
        annualProfit |-> Undefined]
  ELSE [paybackYears |->
          IF JSGt(annualProfit, Num(0))
          THEN MathFloor(JSDiv(investment, annualProfit)) ELSE Infinity,
        roiPercentage |-> JSMul(JSDiv(annualProfit, investment), Num(100)),
        breakEvenMonth |->
          IF JSGt(annualProfit, Num(0))
          THEN MathFloor(JSDiv(investment, JSDiv(annualProfit, Num(12))))
          ELSE Infinity,
        investment |-> investment, annualProfit |-> annualProfit]

\* calculateROI(results), from results.investment and results.profit
calculateROI(investment, annualProfit) ==
  IF JSLe(investment, Num(0))
  THEN [paybackYears |-> Infinity, roiPercentage |-> Num(0),
        breakEvenMonth |-> Infinity, investment |-> Undefined,
        annualProfit |-> Undefined]
  ELSE [paybackYears |->
          IF JSGt(annualProfit, Num(0))
          THEN MathCeil(JSDiv(investment, annualProfit)) ELSE Infinity,
        roiPercentage |-> JSMul(JSDiv(annualProfit, investment), Num(100)),
        breakEvenMonth |->
          IF JSGt(annualProfit, Num(0))
          THEN MathCeil(JSDiv(investment, JSDiv(annualProfit, Num(12))))
          ELSE Infinity,
        investment |-> investment, annualProfit |-> annualProfit]

\* Reading the field lists of a schema throws a TypeError when the schema has no
\* categories object, or when a list that is iterated is not an array; the
\* bespoke revenue formulas never iterate the revenue list.
readsThrow(projectType) ==
  \/ ~projectType.categories.present
  \/ (~projectType.categories.revenue.isArray
      /\ ~\E b \in BespokeIds : projectType.id = Str(b))
  \/ ~projectType.categories.operating.isArray
  \/ ~projectType.categories.staffing.isArray
  \/ ~projectType.categories.investment.isArray

\* calculateProjectPL: the error thrown ("" for none) and <<the results>>.  The
\* breakdown object, display detail derived from the same inputs, is left out.
\* the results object, once revenue, costs, investment and profit are computed
resultsWith(typeId, typeName, data, revenue, costs, investment, profit) ==
  [typeId |-> typeId, typeName |-> typeName, formData |-> data,
   revenue |-> revenue, costs |-> costs, investment |-> investment,
   profit |-> profit, monthlyProfit |-> JSDiv(profit, Num(12)),
   roi |-> calculateROI(investment, profit)]

\* results.profit = results.revenue.annual - results.costs.annual
resultsOf(typeId, typeName, data, revenue, costs, investment) ==
  resultsWith(typeId, typeName, data, revenue, costs, investment,
              JSSub(revenue.annual, costs.annual))

\* calculateProjectPL for the schema the registry returned
calculateFor(typeId, found, data) ==
  IF found = Null THEN [error |-> "Unknown project type", value |-> Null]
  ELSE IF readsThrow(found[1]) THEN [error |-> "TypeError", value |-> Null]
  ELSE [error |-> "",
        value |-> Some(resultsOf(typeId, found[1].name, data,
                                 calculateRevenue(found[1], data),
                                 calculateCosts(found[1], data),
                                 calculateInvestment(found[1], data)))]

calculateProjectPL(ct, typeId, data) ==
  calculateFor(typeId, getProjectType(ct, typeId), data)

\* getCalculation: this.calculations.get(typeId) || null
getCalculation(calcs, typeId) ==
  IF typeId \in DOMAIN calcs THEN Some(calcs[typeId]) ELSE Null

\* A faulty variant of registered: a failed calculation drops the cached
\* result of the id.
registered_ClearsOnThrow(pts, calcs, typeId, data, calc) ==
  [error |-> calc.error,
   projectTypes |-> (typeId :> data) @@ pts,
   calculations |-> IF calc.error = "" THEN (typeId :> calc.value[1]) @@ calcs
                    ELSE [k \in DOMAIN calcs \ {typeId} |-> calcs[k]],
   value |-> calc.value]

\* A faulty variant of registered: the first result cached for an id is kept.
registered_KeepsFirst(pts, calcs, typeId, data, calc) ==
  [error |-> calc.error,
   projectTypes |-> (typeId :> data) @@ pts,
   calculations |-> IF calc.error = "" /\ typeId \notin DOMAIN calcs
                    THEN (typeId :> calc.value[1]) @@ calcs
                    ELSE calcs,
   value |-> calc.value]

\* A faulty variant of registered: the entry read back is the one the cache held
\* before the call.
registered_ReturnsCached(pts, calcs, typeId, data, calc) ==
  [error |-> calc.error,
   projectTypes |-> (typeId :> data) @@ pts,
   calculations |-> IF calc.error = "" THEN (typeId :> calc.value[1]) @@ calcs
                    ELSE calcs,
   value |-> IF calc.error = "" /\ typeId \in DOMAIN calcs
             THEN <<calcs[typeId]>> ELSE calc.value]

\* registerProjectType: the data is stored first; the result is cached only when
\* calculateProjectPL returns.
registered(pts, calcs, typeId, data, calc) ==
  [error |-> calc.error,
   projectTypes |-> (typeId :> data) @@ pts,
   calculations |-> IF calc.error = "" THEN (typeId :> calc.value[1]) @@ calcs
                    ELSE calcs,
   value |-> calc.value]

registerProjectType(ct, pts, calcs, typeId, data) ==
  registered(pts, calcs, typeId, data, calculateProjectPL(ct, typeId, data))


\* one entry of projects, from the adjusted revenue and costs
adjustedProject(typeId, calculation, adjustedRevenue, adjustedCosts) ==
  [typeId |-> typeId, typeName |-> calculation.typeName,
   revenue |-> adjustedRevenue, costs |-> adjustedCosts,
   profit |-> JSSub(adjustedRevenue, adjustedCosts),
   investment |-> calculation.investment]

\* the loop of calculateCombinedPL over projectTypeIds[i..]: the entries pushed.
\* revAdjust is adjustments.revenue || 1, costAdjust is adjustments.costs || 1.
RECURSIVE combinedProjects(_, _, _, _)
combinedProjects(calcs, projectTypeIds, i, adjustments) ==
  IF i > Len(projectTypeIds) THEN <<>>
  ELSE IF getCalculation(calcs, projectTypeIds[i]) = Null
  THEN combinedProjects(calcs, projectTypeIds, i + 1, adjustments)
  ELSE <<adjustedProject(
           projectTypeIds[i], calcs[projectTypeIds[i]],
           JSMul(calcs[projectTypeIds[i]].revenue.annual, Or(adjustments.revenue, Num(1))),
           JSMul(calcs[projectTypeIds[i]].costs.annual, Or(adjustments.costs, Num(1))))>>
       \o combinedProjects(calcs, projectTypeIds, i + 1, adjustments)

\* total += projects[i][field], from 0, in the order of the list
RECURSIVE runningTotal(_, _, _)
runningTotal(projects, field, n) ==
  IF n = 0 THEN Num(0)
  ELSE JSAdd(runningTotal(projects, field, n - 1), projects[n][field])

\* the totals object, once the three sums and their difference are computed
combinedTotals(totalRevenue, totalCosts, totalInvestment, difference) ==
  [revenue |-> totalRevenue, costs |-> totalCosts, profit |-> difference,
   investment |-> totalInvestment,
   roi |-> IF JSGt(totalInvestment, Num(0))
           THEN JSMul(JSDiv(difference, totalInvestment), Num(100)) ELSE Num(0),
   paybackYears |-> IF JSGt(difference, Num(0))
                    THEN MathCeil(JSDiv(totalInvestment, difference)) ELSE Infinity]

combinedOf(projects, totalRevenue, totalCosts, totalInvestment) ==
  [projects |-> projects,
   totals |-> combinedTotals(totalRevenue, totalCosts, totalInvestment,
                             JSSub(totalRevenue, totalCosts))]

combinedFrom(projects) ==
  combinedOf(projects, runningTotal(projects, "revenue", Len(projects)),
             runningTotal(projects, "costs", Len(projects)),
             runningTotal(projects, "investment", Len(projects)))

\* calculateCombinedPL(projectTypeIds, adjustments) on the cache calcs
calculateCombinedPL(calcs, projectTypeIds, adjustments) ==
  combinedFrom(combinedProjects(calcs, projectTypeIds, 1, adjustments))

\* adjustments = {}
NoAdjustments == [revenue |-> Undefined, costs |-> Undefined]

\* one row of the cash flow
cashFlowRow(month, openingBalance, inflow, outflow, netFlow) ==
  [month |-> month, opening |-> openingBalance, inflow |-> inflow,
   outflow |-> outflow, netFlow |-> netFlow,
   closing |-> JSAdd(openingBalance, netFlow)]

\* A faulty variant of cashFlowRows: every month opens at 0.
RECURSIVE cashFlowRows_NoCarry(_, _, _, _, _)
cashFlowRows_NoCarry(month, months, monthlyRevenue, monthlyCosts, openingBalance) ==
  IF month > months THEN <<>>
  ELSE <<cashFlowRow(month, Num(0), monthlyRevenue, monthlyCosts,
                     JSSub(monthlyRevenue, monthlyCosts))>>
       \o cashFlowRows_NoCarry(month + 1, months, monthlyRevenue, monthlyCosts, Num(0))

\* the loop of generateCashFlow from month on, opening at openingBalance
RECURSIVE cashFlowRows(_, _, _, _, _)
cashFlowRows(month, months, monthlyRevenue, monthlyCosts, openingBalance) ==
  IF month > months THEN <<>>
  ELSE <<cashFlowRow(month, openingBalance, monthlyRevenue, monthlyCosts,
                     JSSub(monthlyRevenue, monthlyCosts))>>
       \o cashFlowRows(month + 1, months, monthlyRevenue, monthlyCosts,
                       JSAdd(openingBalance, JSSub(monthlyRevenue, monthlyCosts)))

cashFlowOf(totals, months) ==
  cashFlowRows(1, months, JSDiv(totals.revenue, Num(12)),
               JSDiv(totals.costs, Num(12)), Num(0))

\* generateCashFlow(projectTypeIds, months) on the cache calcs
generateCashFlow(calcs, projectTypeIds, months) ==
  cashFlowOf(calculateCombinedPL(calcs, projectTypeIds, NoAdjustments).totals, months)


----------------------------------------------------------------------------
(* The selection state managers.  A JavaScript Set keeps insertion order:  *)
(* it is a sequence without repetition; null is Null, an id x is Some(x).  *)

\* Set.has
has(set, x) == \E i \in DOMAIN set : set[i] = x

\* Set.delete
without(set, x) == SelectSeq(set, LAMBDA y : y # x)

\* getProjectsByBusinessType: the schemas of that business type
getProjectsByBusinessType(ct, businessType) ==
  {getAllProjectTypes(ct)[k] :
     k \in {j \in DOMAIN getAllProjectTypes(ct) :
              getAllProjectTypes(ct)[j].businessType = businessType}}

\* SelectionStateManager after its constructor, nothing being saved
NewSelection ==
  [selectedBusinessType |-> Null, selectedProjectTypes |-> <<>>,
   activeProjectType |-> Null, saved |-> Null]

\* saveState: the item written to localStorage (the timestamp is left out)
saveState(sel) ==
  [sel EXCEPT !.saved =
     Some([selectedBusinessType |-> sel.selectedBusinessType,
           selectedProjectTypes |-> sel.selectedProjectTypes,
           activeProjectType |-> sel.activeProjectType])]

\* what a method of a state manager leaves and returns
Left(state, value) == [state |-> state, value |-> value]

Selection_setBusinessType(sel, businessTypeId) ==
  IF sel.selectedBusinessType # businessTypeId
  THEN Left(saveState([sel EXCEPT !.selectedBusinessType = businessTypeId,
                                  !.selectedProjectTypes = <<>>,
                                  !.activeProjectType = Null]),
            Undefined)
  ELSE Left(sel, Undefined)

\* getAvailableProjectTypes, with window.projectTypeManager in place
getAvailableProjectTypes(ct, sel) ==
  IF sel.selectedBusinessType = Null THEN {}
  ELSE getProjectsByBusinessType(ct, sel.selectedBusinessType[1])

\* the validation of addProjectType: the id belongs to the business type
matchesBusinessType(ct, sel, projectTypeId) ==
  \/ \E p \in getAvailableProjectTypes(ct, sel) : p.id = Str(projectTypeId)
  \/ /\ getProjectType(ct, projectTypeId) # Null
     /\ sel.selectedBusinessType # Null
     /\ getProjectType(ct, projectTypeId)[1].businessType = sel.selectedBusinessType[1]

Selection_addProjectType(ct, sel, projectTypeId) ==
  IF has(sel.selectedProjectTypes, projectTypeId) THEN Left(sel, Bool(FALSE))
  ELSE IF ~matchesBusinessType(ct, sel, projectTypeId) THEN Left(sel, Bool(FALSE))
  ELSE Left(saveState(
              [sel EXCEPT
                 !.selectedProjectTypes = Append(sel.selectedProjectTypes, projectTypeId),
                 !.activeProjectType =
                   IF Len(sel.selectedProjectTypes) = 0 THEN Some(projectTypeId)
                   ELSE sel.activeProjectType]),
            Bool(TRUE))

\* A faulty variant of Selection_removeProjectType: the active project is left
\* as it was.
Selection_removeProjectType_KeepsActive(sel, projectTypeId) ==
  IF has(sel.selectedProjectTypes, projectTypeId)
  THEN Left(saveState([sel EXCEPT !.selectedProjectTypes =
                                    without(sel.selectedProjectTypes, projectTypeId)]),
            Bool(TRUE))
  ELSE Left(sel, Bool(FALSE))

Selection_removeProjectType(sel, projectTypeId) ==
  IF has(sel.selectedProjectTypes, projectTypeId)
  THEN LET rest == without(sel.selectedProjectTypes, projectTypeId)
       IN  Left(saveState(
                  [sel EXCEPT
                     !.selectedProjectTypes = rest,
                     !.activeProjectType =
                       IF sel.activeProjectType = Some(projectTypeId)
                       THEN IF Len(rest) > 0 THEN Some(rest[1]) ELSE Null
                       ELSE sel.activeProjectType]),
                Bool(TRUE))
  ELSE Left(sel, Bool(FALSE))

setActiveProjectType(sel, projectTypeId) ==
  IF has(sel.selectedProjectTypes, projectTypeId)
     /\ sel.activeProjectType # Some(projectTypeId)
  THEN Left(saveState([sel EXCEPT !.activeProjectType = Some(projectTypeId)]), Undefined)
  ELSE Left(sel, Undefined)

clearProjectTypes(sel) ==
  IF Len(sel.selectedProjectTypes) > 0
  THEN Left(saveState([sel EXCEPT !.selectedProjectTypes = <<>>,
                                  !.activeProjectType = Null]),
            Undefined)
  ELSE Left(sel, Undefined)

\* NovaStateManager after its constructor, nothing being saved
NewNova ==
  [businessType |-> Null, projectTypes |-> <<>>, activeProject |-> Null,
   currentStep |-> "business-type", saved |-> Null]

\* saveNovaState: the item written to localStorage
saveNovaState(st) ==
  [st EXCEPT !.saved =
     Some([businessType |-> st.businessType, projectTypes |-> st.projectTypes,
           activeProject |-> st.activeProject, currentStep |-> st.currentStep])]

\* a falsy id: null or the empty string
falsy(id) == id = Null \/ id = Some("")

Nova_setBusinessType(st, businessTypeId) ==
  IF st.businessType # businessTypeId
  THEN Left(saveNovaState(
              [st EXCEPT !.businessType = businessTypeId,
                         !.projectTypes = <<>>,
                         !.activeProject = Null,
                         !.currentStep = IF falsy(businessTypeId) THEN "business-type"
                                         ELSE "project-type"]),
            Undefined)
  ELSE Left(st, Undefined)

Nova_addProjectType(st, projectTypeId) ==
  IF has(st.projectTypes, projectTypeId) THEN Left(st, Undefined)
  ELSE Left(saveNovaState(
              [st EXCEPT
                 !.projectTypes = Append(st.projectTypes, projectTypeId),
                 !.activeProject = IF falsy(st.activeProject) THEN Some(projectTypeId)
                                   ELSE st.activeProject,
                 !.currentStep = "analysis"]),
            Undefined)

Nova_removeProjectType(st, projectTypeId) ==
  IF has(st.projectTypes, projectTypeId)
  THEN LET rest == without(st.projectTypes, projectTypeId)
       IN  Left(saveNovaState(
                  [st EXCEPT
                     !.projectTypes = rest,
                     !.activeProject =
                       IF st.activeProject = Some(projectTypeId)
                       THEN IF Len(rest) > 0 THEN Some(rest[1]) ELSE Null
                       ELSE st.activeProject,
                     !.currentStep = IF Len(rest) > 0 THEN "analysis" ELSE "project-type"]),
                Undefined)
  ELSE Left(st, Undefined)

setActiveProject(st, projectTypeId) ==
  IF has(st.projectTypes, projectTypeId) /\ st.activeProject # Some(projectTypeId)
  THEN Left(saveNovaState([st EXCEPT !.activeProject = Some(projectTypeId)]), Undefined)
  ELSE Left(st, Undefined)

----------------------------------------------------------------------------
(* The start-up of the Nova tab (NovaInitializer).  initialize() is an     *)
(* async function: each call is a run that stops at its awaits, so runs of *)
(* several calls interleave.  runs lists the calls made so far with the    *)
(* step each is about to take; timers counts the retries scheduled with    *)
(* setTimeout; ready counts the 'nova-ready' events dispatched.  globals   *)
(* says whether BUSINESS_TYPE_CATEGORIES and projectTypeManager are        *)
(* defined, components whether window.Nova.stateManager, ui and core and   *)
(* the tab container are in place.                                         *)

\* this.maxRetries
maxRetries == 10

\* waitForDependencies: maxWait and checkInterval, in milliseconds
maxWait == 5000

checkInterval == 100

\* NovaInitializer after its constructor
NewInitializer(globals, components) ==
  [initialized |-> FALSE, retryCount |-> 0, runs |-> <<>>, timers |-> 0,
   autoStart |-> "pending", ready |-> 0, globals |-> globals,
   components |-> components]

\* dispatchNovaReadyEvent
dispatchNovaReadyEvent(ini) == [ini EXCEPT !.ready = ini.ready + 1]

\* the catch block of initialize, for run i
retryOrGiveUp(ini, i) ==
  IF ini.retryCount < maxRetries
  THEN [ini EXCEPT !.retryCount = ini.retryCount + 1,
                   !.timers = ini.timers + 1,
                   !.runs[i].step = "returned"]
  ELSE [ini EXCEPT !.runs[i].step = "returned"]

\* checkDependencies, for run i
checkDependencies(ini, i) ==
  IF ini.globals THEN [ini EXCEPT !.runs[i].step = "initializeNovaState"]
  ELSE IF ini.runs[i].waited >= maxWait THEN retryOrGiveUp(ini, i)
  ELSE [ini EXCEPT !.runs[i].waited = ini.runs[i].waited + checkInterval]

\* initialize(): the guard on this.initialized, then waitForDependencies with
\* its first check
initialize(ini) ==
  IF ini.initialized
  THEN [ini EXCEPT !.runs = Append(ini.runs, [step |-> "returned", waited |-> 0])]
  ELSE checkDependencies(
         [ini EXCEPT !.runs = Append(ini.runs, [step |-> "waitForDependencies",
                                                waited |-> 0])],
         Len(ini.runs) + 1)

\* the step after each awaited step
nextStep(step) ==
  CASE step = "initializeNovaState" -> "initializeNovaUI"
    [] step = "initializeNovaUI" -> "initializeNovaCore"
    [] step = "initializeNovaCore" -> "setupNovaTabIntegration"
    [] step = "setupNovaTabIntegration" -> "loadNovaInitialState"
    [] OTHER -> "returned"

\* the steps that throw when a component of window.Nova is missing
needsComponents ==
  {"initializeNovaState", "initializeNovaUI", "initializeNovaCore", "loadNovaInitialState"}

\* run i resumes after an await and takes its next step; after the last one
\* it sets this.initialized and dispatches 'nova-ready'
resume(ini, i) ==
  IF ini.runs[i].step \in needsComponents /\ ~ini.components
  THEN retryOrGiveUp(ini, i)
  ELSE IF ini.runs[i].step = "loadNovaInitialState"
  THEN dispatchNovaReadyEvent([ini EXCEPT !.initialized = TRUE,
                                          !.runs[i].step = "returned"])
  ELSE [ini EXCEPT !.runs[i].step = nextStep(ini.runs[i].step)]
----------------------------------------------------------------------------
(* Inputs.                                                                 *)

CustomIds == {"myBiz", "other"}

Ids == BuiltinIds \cup CustomIds

\* A user template: the generic formula applies to it.
customSchema ==
  [id |-> Str("myBiz"), name |-> Str("My Business"),
   description |-> "A user template", businessType |-> "hybrid",
   categories |-> Categories(
     << Field("setup", "currency", Num(1000)) >>,
     << Field("productRevenue", "currency", Num(1000)) >>,
     << Field("rent", "currency", Num(200)) >>,
     << Field("staff", "number", Num(1)),
        Field("staffSal", "currency", Num(300)) >>)]

\* Schemas that validateProjectTypeConfig rejects.
noIdSchema == [customSchema EXCEPT !.id = Undefined]

numericIdSchema == [customSchema EXCEPT !.id = Num(7)]

noNameSchema == [customSchema EXCEPT !.name = Undefined]

noCategoriesSchema == [customSchema EXCEPT !.categories = NoCategories]

noStaffingSchema == [customSchema EXCEPT !.categories.staffing = NotArray]

\* A user template with several revenue fields: two that the generic formula
\* sums, one of them without a default, and two that it passes over.
mixedRevenueSchema ==
  [customSchema EXCEPT
     !.id = Str("other"),
     !.categories.revenue =
       Arr(<< Field("productRevenue", "currency", Num(1000)),
              Field("ServiceREVENUE", "currency", Num(500)),
              Field("grossRevenue", "currency", Undefined),
              Field("revenueSharePct", "percentage", Num(10)),
              Field("sales", "currency", Num(300)) >>)]

\* A user template none of whose revenue fields the generic formula sums.
noRevenueSchema ==
  [customSchema EXCEPT
     !.id = Str("other"),
     !.categories.revenue = Arr(<< Field("sales", "currency", Num(300)) >>)]

\* A user template that carries the id of the CapEx formula.
capexSchema == [customSchema EXCEPT !.id = Str("capexInvestment")]

\* A user template with per-event operating costs: a yearly rent, a catering
\* cost per event and a number-typed field whose id contains "event".
eventSchema ==
  [customSchema EXCEPT
     !.id = Str("events"), !.name = Str("Event Series"),
     !.categories.operating =
       Arr(<< Field("rent", "currency", Num(200)),
              Field("eventCatering", "currency", Num(2000)),
              Field("eventCount", "number", Num(5)) >>)]

\* A user template for a let property: one employee, a property manager flag
\* and a management fee in percent of the rent.
rentalSchema ==
  [customSchema EXCEPT
     !.id = Str("rental"), !.name = Str("Rental Flat"),
     !.categories.staffing =
       Arr(<< Field("staff", "number", Num(1)),
              Field("staffSal", "currency", Num(300)),
              Field("propertyManager", "boolean", Bool(TRUE)),
              Field("managementFee", "percentage", Num(10)) >>)]

\* A well-formed schema that carries a built-in's id.
gymNamedSchema == [customSchema EXCEPT !.id = Str("gym"), !.name = Str("Fake Gym")]

SchemaInputs ==
  {customSchema, noIdSchema, numericIdSchema, noNameSchema, noCategoriesSchema,
   noStaffingSchema}

TemplateIds == {"generic", "gym", "myBiz", "other"}

Names == {Str("My Clone"), Str("")}

\* Parsed import files.
ImportInputs ==
  {[hasCustom |-> FALSE, custom |-> EmptyMap],
   [hasCustom |-> TRUE, custom |-> EmptyMap],
   [hasCustom |-> TRUE, custom |-> ("myBiz" :> customSchema)],
   [hasCustom |-> TRUE, custom |-> ("myBiz" :> customSchema) @@ ("other" :> noStaffingSchema)],
   [hasCustom |-> TRUE, custom |-> ("other" :> noNameSchema)],
   [hasCustom |-> TRUE, custom |-> ("gym" :> gymNamedSchema)]}

EmptyBag == [k \in {} |-> Undefined]

\* Value bags as the forms produce them: finite numbers and booleans.
profitBag ==
  [primaryRevenue |-> Num(5000), productRevenue |-> Num(5000),
   equipment |-> Num(12000), setup |-> Num(12000), utilities |-> Num(0)]

negativeBag ==
  [primaryRevenue |-> Num(900000), productRevenue |-> Num(900000),
   equipment |-> Num(-400000), setup |-> Num(-5000), ground |-> Num(-400000),
   venue |-> Num(-400000), development |-> Num(-400000), website |-> Num(-400000),
   office |-> Num(-400000)]

padelBag ==
  [courts |-> Num(3), peakHours |-> Num(4), peakRate |-> Num(40), peakUtil |-> Num(70),
   offHours |-> Num(2), offRate |-> Num(25), offUtil |-> Num(35), days |-> Num(7),
   weeks |-> Num(52)]

\* Court rental scenarios: one and two courts, no court count, and longer
\* opening hours.
PadelBags ==
  {[padelBag EXCEPT !.courts = Num(1)],
   [padelBag EXCEPT !.courts = Num(2)],
   [padelBag EXCEPT !.peakHours = Num(10), !.offHours = Num(4)],
   [peakHours |-> Num(4), peakRate |-> Num(40), peakUtil |-> Num(70),
    offHours |-> Num(2), offRate |-> Num(25), offUtil |-> Num(35), days |-> Num(7),
    weeks |-> Num(52)]}

\* Bags for the per-event costs: no events at all, twelve events, and bags
\* that give the catering cost and the rent themselves.
EventBags ==
  {[eventsPerYear |-> Num(0)],
   [eventsPerYear |-> Num(12)],
   [eventsPerYear |-> Num(0), eventCatering |-> Num(500)],
   [eventsPerYear |-> Num(3), eventCatering |-> Num(500), rent |-> Num(100)],
   [eventCatering |-> Num(500)]}

\* Bags for the management fee: the flag set, cleared, given as 1 and absent.
RentalBags ==
  {[monthlyRent |-> Num(1000), occupancyRate |-> Num(90), managementFee |-> Num(10),
    propertyManager |-> Bool(TRUE)],
   [monthlyRent |-> Num(1000), occupancyRate |-> Num(90), managementFee |-> Num(10),
    propertyManager |-> Bool(FALSE)],
   [monthlyRent |-> Num(1000), occupancyRate |-> Num(90), managementFee |-> Num(10),
    propertyManager |-> Num(1)],
   [monthlyRent |-> Num(1000), occupancyRate |-> Num(90), managementFee |-> Num(10)]}

gymBag ==
  [weekMembers |-> Num(60), weekFee |-> Num(20), monthMembers |-> Num(30),
   monthFee |-> Num(50), annualMembers |-> Num(12), annualFee |-> Num(450),
   rampUp |-> Num(1), rampDuration |-> Num(3), rampEffect |-> Num(40)]

eventBag ==
  [capacity |-> Num(200), ticketPrice |-> Num(150), occupancyRate |-> Num(80),
   eventsPerYear |-> Num(12), sponsorship |-> Num(10000)]

onlineBag ==
  [basicUsers |-> Num(100), basicPrice |-> Num(29), proUsers |-> Num(50),
   proPrice |-> Num(79), churnRate |-> Num(5), avgOrderValue |-> Num(75),
   ordersPerMonth |-> Num(500), grossMargin |-> Num(40), returnRate |-> Num(8),
   hourlyRate |-> Num(120), billableHours |-> Num(30), utilizationRate |-> Num(75),
   weeksPerYear |-> Num(48)]

\* A bag as a caller of the engine can hand it over: numerals, other text, booleans.
textBag ==
  [primaryRevenue |-> Text("12"), productRevenue |-> Text("2.5"),
   equipment |-> Text("abc"), setup |-> Text("-3"), utilities |-> Bool(TRUE),
   rent |-> Text(""), rampUp |-> Bool(TRUE), weekMembers |-> Text("12"),
   weekFee |-> Text("2.5"), staffSal |-> Text("0"), staff |-> Num(0),
   sales |-> Text("-3"), grossRevenue |-> NaN, ServiceREVENUE |-> Infinity]

\* The membership bags with and without the ramp-up key, the flag as a boolean
\* and as a number.
GymBags ==
  {[gymBag EXCEPT !.rampUp = f, !.rampDuration = d, !.rampEffect = e] :
     f \in {Bool(TRUE), Bool(FALSE), Num(1)}, d \in {Num(0), Num(3), Num(12)},
     e \in {Num(40), Num(0)}}
  \cup {[k \in DOMAIN gymBag \ {"rampUp"} |-> gymBag[k]]}

\* The benefits bags: implementation and ramp-up months on both sides of 12.
CapexBags ==
  {[costSavings |-> Num(50000), revenueIncrease |-> Num(30000),
    implementationTime |-> Num(i), rampUpPeriod |-> Num(r)] :
     i \in {0, 6, 8, 11, 12}, r \in {0, 3, 4}}

CalcBags ==
  {EmptyBag, profitBag, negativeBag, padelBag, gymBag, eventBag, onlineBag, textBag}

\* The bags of the stateful specification.
Bags == {EmptyBag, profitBag}

EngineIds == {"gym", "generic", "myBiz", "other"}

\* Registries the calculation is checked against: none, one and two user
\* templates, as setProjectType and createFromTemplate leave them.
CalcRegistries ==
  {EmptyMap,
   ("myBiz" :> customSchema),
   ("myBiz" :> customSchema) @@ ("other" :> mixedRevenueSchema),
   ("other" :> noRevenueSchema) @@ ("capexInvestment" :> capexSchema)
     @@ ("events" :> eventSchema) @@ ("rental" :> rentalSchema)}

\* The type ids the calculation is asked for.
CalcIds == Ids \cup {"capexInvestment"}

\* The inputs of the engine specification: a bag that zeroes the investment
\* fields, lists of ids with a repeated and an unknown id, multipliers that are
\* absent, zero, fractional and whole, and numbers of months.
freeBag == [profitBag EXCEPT !.equipment = Num(0), !.setup = Num(0)]

EngineBags == {EmptyBag, profitBag, freeBag}

CombinedIds == {"gym", "myBiz", "other"}

IdLists ==
  {<<>>, <<"gym">>, <<"myBiz">>, <<"gym", "myBiz">>, <<"myBiz", "myBiz">>,
   <<"other", "gym", "myBiz">>}

AdjustmentInputs ==
  {NoAdjustments,
   [revenue |-> Num(2), costs |-> Undefined],
   [revenue |-> Num(0), costs |-> Num(0)],
   [revenue |-> Rat(1, 2), costs |-> Num(3)]}

CashFlowMonths == {0, 1, 3, 12}

\* What localStorage holds when the page is first loaded: nothing, or the
\* collection an earlier visit saved.
InitialStorage == {Null, Some("myBiz" :> customSchema)}

\* The inputs of the stateful specification.
SystemIds == {"gym", "myBiz", "other"}

SystemSchemas == {customSchema, noNameSchema}

SystemTemplateIds == {"generic", "myBiz"}

\* The lists the stateful specification combines.
SystemIdLists == {<<"myBiz">>, <<"gym", "myBiz">>}

MaxOps == 3

----------------------------------------------------------------------------
(* The state machine.  lastOp names the last call and the id it was given; *)
(* ret is what that call threw ("" when it returned) and returned.         *)

NoRet == [error |-> "", value |-> Undefined]

\* The page before any selection and before the start-up: both state managers
\* as their constructors leave them with nothing saved, the initializer as
\* constructed with every script loaded.
PageInit ==
  /\ selection = NewSelection
  /\ nova = NewNova
  /\ initializer = NewInitializer(TRUE, TRUE)

Init ==
  /\ storage \in InitialStorage
  /\ customTypes = loadCustomTypes(storage)
  /\ projectTypes = EmptyMap
  /\ calculations = EmptyMap
  /\ lastOp = [op |-> "constructor", id |-> ""]
  /\ ret = NoRet
  /\ ops = 0
  /\ PageInit

\* A registry method: the collection it leaves, the item saved when
\* saveCustomTypes ran, and the call's outcome.
RegistryCall(op, id, outcome) ==
  /\ customTypes' = outcome.customTypes
  /\ storage' = IF outcome.saved THEN saveCustomTypes(outcome.customTypes) ELSE storage
  /\ lastOp' = [op |-> op, id |-> id]
  /\ ret' = [error |-> outcome.error, value |-> outcome.value]
  /\ UNCHANGED <<projectTypes, calculations>>
  /\ UNCHANGED pageVars

SetProjectType(id, config) ==
  RegistryCall("setProjectType", id, setProjectType(customTypes, id, config))

DeleteProjectType(id) ==
  RegistryCall("deleteProjectType", id, deleteProjectType(customTypes, id))

CreateFromTemplate(templateId, newId, newName) ==
  RegistryCall("createFromTemplate", newId,
               createFromTemplate(customTypes, templateId, newId, newName))

ImportConfiguration(configData) ==
  RegistryCall("importConfiguration", "", importConfiguration(customTypes, configData))

\* The export file read back: importConfiguration(JSON.parse(JSON.stringify(
\* exportConfiguration()))), as the export and import buttons do it.
jsonFile(file) == [hasCustom |-> file.hasCustom, custom |-> jsonCloneMap(file.custom)]

ExportThenImport ==
  RegistryCall("exportThenImport", "",
               importConfiguration(customTypes, jsonFile(exportConfiguration(customTypes))))

\* A page load: a new ProjectTypeManager reads the saved item, and a new engine
\* starts with empty maps.
Reload ==
  /\ customTypes' = loadCustomTypes(storage)
  /\ projectTypes' = EmptyMap
  /\ calculations' = EmptyMap
  /\ lastOp' = [op |-> "constructor", id |-> ""]
  /\ ret' = NoRet
  /\ UNCHANGED storage
  /\ UNCHANGED pageVars

\* An engine method: the two maps it leaves and the call's outcome.
EngineCall(op, typeId, outcome) ==
  /\ projectTypes' = outcome.projectTypes
  /\ calculations' = outcome.calculations
  /\ lastOp' = [op |-> op, id |-> typeId]
  /\ ret' = [error |-> outcome.error, value |-> outcome.value]
  /\ UNCHANGED <<customTypes, storage>>
  /\ UNCHANGED pageVars

RegisterProjectType(typeId, data) ==
  EngineCall("registerProjectType", typeId,
             registerProjectType(customTypes, projectTypes, calculations, typeId, data))

CalculateProjectPL(typeId, data) ==
  /\ lastOp' = [op |-> "calculateProjectPL", id |-> typeId]
  /\ ret' = calculateProjectPL(customTypes, typeId, data)
  /\ UNCHANGED <<customTypes, storage, projectTypes, calculations>>
  /\ UNCHANGED pageVars

\* The two read-only engine methods: lastOp keeps their arguments.
CalculateCombinedPL(projectTypeIds, adjustments) ==
  /\ lastOp' = [op |-> "calculateCombinedPL", id |-> "",
                ids |-> projectTypeIds, adjustments |-> adjustments]
  /\ ret' = [error |-> "",
             value |-> calculateCombinedPL(calculations, projectTypeIds, adjustments)]
  /\ UNCHANGED <<customTypes, storage, projectTypes, calculations>>
  /\ UNCHANGED pageVars

GenerateCashFlow(projectTypeIds, months) ==
  /\ lastOp' = [op |-> "generateCashFlow", id |-> "",
                ids |-> projectTypeIds, months |-> months]
  /\ ret' = [error |-> "",
             value |-> generateCashFlow(calculations, projectTypeIds, months)]
  /\ UNCHANGED <<customTypes, storage, projectTypes, calculations>>
  /\ UNCHANGED pageVars

\* One more call, while fewer than MaxOps were made.
Tick == ops < MaxOps /\ ops' = ops + 1

\* The whole system, MaxOps calls deep.
Next ==
  \/ \E id \in SystemIds, config \in SystemSchemas : Tick /\ SetProjectType(id, config)
  \/ \E id \in SystemIds : Tick /\ DeleteProjectType(id)
  \/ \E t \in SystemTemplateIds, id \in SystemIds :
       Tick /\ CreateFromTemplate(t, id, Str("My Clone"))
  \/ \E configData \in ImportInputs : Tick /\ ImportConfiguration(configData)
  \/ Tick /\ ExportThenImport
  \/ Tick /\ Reload
  \/ \E id \in EngineIds, data \in Bags : Tick /\ RegisterProjectType(id, data)
  \/ \E id \in EngineIds, data \in Bags : Tick /\ CalculateProjectPL(id, data)
  \/ \E projectTypeIds \in SystemIdLists :
       Tick /\ CalculateCombinedPL(projectTypeIds, NoAdjustments)

Spec == Init /\ [][Next]_vars

\* The registry alone, any number of calls.
NextRegistry ==
  \/ \E id \in Ids, config \in SchemaInputs :
       SetProjectType(id, config) /\ UNCHANGED ops
  \/ \E id \in Ids : DeleteProjectType(id) /\ UNCHANGED ops
  \/ \E t \in TemplateIds, id \in Ids, name \in Names :
       CreateFromTemplate(t, id, name) /\ UNCHANGED ops
  \/ \E configData \in ImportInputs : ImportConfiguration(configData) /\ UNCHANGED ops
  \/ ExportThenImport /\ UNCHANGED ops
  \/ Reload /\ UNCHANGED ops

SpecRegistry == Init /\ [][NextRegistry]_vars

\* The calculation as a function of (registry, type id, value bag).
InitCalc ==
  /\ customTypes \in CalcRegistries
  /\ storage = saveCustomTypes(customTypes)
  /\ projectTypes = EmptyMap
  /\ calculations = EmptyMap
  /\ lastOp = [op |-> "constructor", id |-> ""]
  /\ ret = NoRet
  /\ ops = 0
  /\ PageInit

\* Every template with the general bags; the membership and the benefits
\* templates also with the bags of their own fields.
NextCalc ==
  \/ \E id \in CalcIds, data \in CalcBags :
       CalculateProjectPL(id, data) /\ UNCHANGED ops
  \/ \E data \in GymBags : CalculateProjectPL("gym", data) /\ UNCHANGED ops
  \/ \E data \in CapexBags :
       CalculateProjectPL("capexInvestment", data) /\ UNCHANGED ops
  \/ \E data \in PadelBags : CalculateProjectPL("padel", data) /\ UNCHANGED ops
  \/ \E data \in EventBags : CalculateProjectPL("events", data) /\ UNCHANGED ops
  \/ \E data \in RentalBags : CalculateProjectPL("rental", data) /\ UNCHANGED ops

SpecCalc == InitCalc /\ [][NextCalc]_vars

\* The engine alone over a fixed registry, any number of calls.
InitEngine ==
  /\ customTypes = ("myBiz" :> customSchema)
  /\ storage = saveCustomTypes(customTypes)
  /\ projectTypes = EmptyMap
  /\ calculations = EmptyMap
  /\ lastOp = [op |-> "constructor", id |-> ""]
  /\ ret = NoRet
  /\ ops = 0
  /\ PageInit

NextEngine ==
  \/ \E id \in CombinedIds, data \in EngineBags :
       RegisterProjectType(id, data) /\ UNCHANGED ops
  \/ \E projectTypeIds \in IdLists, adjustments \in AdjustmentInputs :
       CalculateCombinedPL(projectTypeIds, adjustments) /\ UNCHANGED ops
  \/ \E projectTypeIds \in IdLists, months \in CashFlowMonths :
       GenerateCashFlow(projectTypeIds, months) /\ UNCHANGED ops

SpecEngine == InitEngine /\ [][NextEngine]_vars

\* The two state managers over a registry with two user templates of the
\* business type "hybrid".
BusinessTypeInputs == {Null, Some("member"), Some("hybrid")}

SelectionIds == {"gym", "myBiz", "other"}

NovaIds == {"", "gym", "myBiz"}

\* A method of SelectionStateManager: the state it leaves and what it returns.
SelectionCall(op, id, left) ==
  /\ selection' = left.state
  /\ lastOp' = [op |-> op, id |-> id]
  /\ ret' = [error |-> "", value |-> left.value]
  /\ UNCHANGED <<customTypes, storage, projectTypes, calculations, ops, nova, initializer>>

\* A method of NovaStateManager.
NovaCall(op, id, left) ==
  /\ nova' = left.state
  /\ lastOp' = [op |-> op, id |-> id]
  /\ ret' = [error |-> "", value |-> left.value]
  /\ UNCHANGED <<customTypes, storage, projectTypes, calculations, ops, selection,
                 initializer>>

\* the text of a business type id, "" for null
idText(id) == IF id = Null THEN "" ELSE id[1]

SelectionSetBusinessType(businessTypeId) ==
  SelectionCall("Selection.setBusinessType", idText(businessTypeId),
                Selection_setBusinessType(selection, businessTypeId))

SelectionAddProjectType(projectTypeId) ==
  SelectionCall("Selection.addProjectType", projectTypeId,
                Selection_addProjectType(customTypes, selection, projectTypeId))

SelectionRemoveProjectType(projectTypeId) ==
  SelectionCall("Selection.removeProjectType", projectTypeId,
                Selection_removeProjectType(selection, projectTypeId))

SetActiveProjectType(projectTypeId) ==
  SelectionCall("Selection.setActiveProjectType", projectTypeId,
                setActiveProjectType(selection, projectTypeId))

ClearProjectTypes ==
  SelectionCall("Selection.clearProjectTypes", "", clearProjectTypes(selection))

NovaSetBusinessType(businessTypeId) ==
  NovaCall("Nova.setBusinessType", idText(businessTypeId),
           Nova_setBusinessType(nova, businessTypeId))

NovaAddProjectType(projectTypeId) ==
  NovaCall("Nova.addProjectType", projectTypeId, Nova_addProjectType(nova, projectTypeId))

NovaRemoveProjectType(projectTypeId) ==
  NovaCall("Nova.removeProjectType", projectTypeId,
           Nova_removeProjectType(nova, projectTypeId))

SetActiveProject(projectTypeId) ==
  NovaCall("Nova.setActiveProject", projectTypeId, setActiveProject(nova, projectTypeId))

InitSelection ==
  /\ customTypes = ("myBiz" :> customSchema) @@ ("other" :> mixedRevenueSchema)
  /\ storage = saveCustomTypes(customTypes)
  /\ projectTypes = EmptyMap
  /\ calculations = EmptyMap
  /\ lastOp = [op |-> "constructor", id |-> ""]
  /\ ret = NoRet
  /\ ops = 0
  /\ PageInit

NextSelection ==
  \/ \E b \in BusinessTypeInputs : SelectionSetBusinessType(b)
  \/ \E id \in SelectionIds : SelectionAddProjectType(id)
  \/ \E id \in SelectionIds : SelectionRemoveProjectType(id)
  \/ \E id \in SelectionIds : SetActiveProjectType(id)
  \/ ClearProjectTypes
  \/ \E b \in BusinessTypeInputs : NovaSetBusinessType(b)
  \/ \E id \in NovaIds : NovaAddProjectType(id)
  \/ \E id \in NovaIds : NovaRemoveProjectType(id)
  \/ \E id \in NovaIds : SetActiveProject(id)

SpecSelection == InitSelection /\ [][NextSelection]_vars

\* The start-up alone: the automatic start, manual calls of
\* window.initializeNova, the retry timers, the polls of waitForDependencies,
\* the resumptions after each await, and the scripts that define the globals
\* and the components arriving.  MaxCalls bounds the calls of initialize().
MaxCalls == 2

InitializerStep(ini) ==
  /\ initializer' = ini
  /\ UNCHANGED <<customTypes, storage, projectTypes, calculations, lastOp, ret, ops,
                 selection, nova>>

\* the DOMContentLoaded handler's timer fires: window.initializeNova()
AutoStart ==
  /\ initializer.autoStart = "pending"
  /\ Len(initializer.runs) < MaxCalls
  /\ InitializerStep(initialize([initializer EXCEPT !.autoStart = "fired"]))

\* a script or the user calls window.initializeNova()
ManualStart ==
  /\ Len(initializer.runs) < MaxCalls
  /\ InitializerStep(initialize(initializer))

\* a retry timer fires: () => this.initialize()
RetryTimer ==
  /\ initializer.timers > 0
  /\ Len(initializer.runs) < MaxCalls
  /\ InitializerStep(initialize([initializer EXCEPT !.timers = initializer.timers - 1]))

\* the poll timer of a waiting run fires
CheckDependencies(i) ==
  /\ initializer.runs[i].step = "waitForDependencies"
  /\ InitializerStep(checkDependencies(initializer, i))

\* a run resumes after an await
Resume(i) ==
  /\ initializer.runs[i].step \notin {"waitForDependencies", "returned"}
  /\ InitializerStep(resume(initializer, i))

\* the script defining the required globals has run
GlobalsDefined ==
  /\ ~initializer.globals
  /\ InitializerStep([initializer EXCEPT !.globals = TRUE])

\* the scripts defining window.Nova's components have run
ComponentsDefined ==
  /\ ~initializer.components
  /\ InitializerStep([initializer EXCEPT !.components = TRUE])

InitInitializer ==
  /\ customTypes = EmptyMap
  /\ storage = Null
  /\ projectTypes = EmptyMap
  /\ calculations = EmptyMap
  /\ lastOp = [op |-> "constructor", id |-> ""]
  /\ ret = NoRet
  /\ ops = 0
  /\ selection = NewSelection
  /\ nova = NewNova
  /\ \E globals \in BOOLEAN, components \in BOOLEAN :
       initializer = NewInitializer(globals, components)

NextInitializer ==
  \/ AutoStart
  \/ ManualStart
  \/ RetryTimer
  \/ \E i \in DOMAIN initializer.runs : CheckDependencies(i)
  \/ \E i \in DOMAIN initializer.runs : Resume(i)
  \/ GlobalsDefined
  \/ ComponentsDefined

SpecInitializer == InitInitializer /\ [][NextInitializer]_vars
----------------------------------------------------------------------------
(* Properties.                                                             *)

\* The results the last call returned: one after a calculateProjectPL or
\* registerProjectType that did not throw, none otherwise.
LastResults ==
  IF lastOp.op \in {"calculateProjectPL", "registerProjectType"} /\ ret.error = ""
  THEN {ret.value[1]}
  ELSE {}

\* A schema with a string id, a string name and the four category arrays.
SchemaShapeOk(config) ==
  /\ config.id.t = "string"
  /\ config.name.t = "string"
  /\ config.categories.present
  /\ config.categories.investment.isArray
  /\ config.categories.revenue.isArray
  /\ config.categories.operating.isArray
  /\ config.categories.staffing.isArray

\* C1: after any sequence of registry operations, every built-in id resolves to
\* the built-in schema, through getProjectType and through getAllProjectTypes.
C1_BuiltinsNeverShadowed ==
  \A b \in BuiltinIds :
    /\ getProjectType(customTypes, b) = Some(DEFAULT_PROJECT_TYPES[b])
    /\ getAllProjectTypes(customTypes)[b] = DEFAULT_PROJECT_TYPES[b]

\* C2: every result satisfies profit = revenue.annual - costs.annual with
\* costs.annual = costs.operating + costs.staffing.
C2_ProfitIdentity ==
  \A r \in LastResults :
    /\ JSAdd(r.profit, r.costs.annual) = r.revenue.annual
    /\ JSSub(r.costs.annual, r.costs.staffing) = r.costs.operating

C2_Witness ==
  \E r \in LastResults :
    /\ r.costs.operating.n > 0
    /\ r.costs.staffing.n > 0
    /\ r.revenue.annual.n > 0
    /\ r.profit.n < 0

\* C3: setProjectType, deleteProjectType and createFromTemplate called with a
\* built-in id as the id to write fail, set and delete with the reserved-id
\* error, and leave the collection, its saved copy and what every built-in id
\* resolves to as they were.
C3_ReservedIdsRejected ==
  [][(lastOp'.op \in {"setProjectType", "deleteProjectType", "createFromTemplate"}
      /\ lastOp'.id \in BuiltinIds)
     => /\ ret'.error # ""
        /\ lastOp'.op = "setProjectType"
             => ret'.error = "Cannot override default project type"
        /\ lastOp'.op = "deleteProjectType"
             => ret'.error = "Cannot delete default project type"
        /\ customTypes' = customTypes
        /\ storage' = storage
        /\ \A b \in BuiltinIds :
             getProjectType(customTypes', b) = getProjectType(customTypes, b)]_vars

C3_Witness ==
  /\ lastOp.op = "setProjectType"
  /\ lastOp.id \in BuiltinIds
  /\ ret.error = "Cannot override default project type"
  /\ DOMAIN customTypes = CustomIds

\* C4: registerProjectType and calculateProjectPL called with an id the registry
\* does not resolve throw 'Unknown project type', and getCalculation(id) returns
\* afterwards what it returned before.
C4_UnknownTypeRejected ==
  [][(lastOp'.op \in {"registerProjectType", "calculateProjectPL"}
      /\ getProjectType(customTypes, lastOp'.id) = Null)
     => /\ ret'.error = "Unknown project type"
        /\ getCalculation(calculations', lastOp'.id)
             = getCalculation(calculations, lastOp'.id)]_vars

C4_Witness ==
  /\ lastOp.op = "registerProjectType"
  /\ ret.error = "Unknown project type"
  /\ getProjectType(customTypes, lastOp.id) = Null
  /\ getCalculation(calculations, lastOp.id) # Null

\* The bag in which every declared field of a schema is set to its defaultValue
\* (0 when it has none); of two fields with one id the later category decides.
RECURSIVE defaultsOf(_, _)
defaultsOf(fields, i) ==
  IF i = 0 THEN EmptyBag
  ELSE (fields[i].id :> (IF fields[i].defaultValue = Undefined THEN Num(0)
                         ELSE fields[i].defaultValue))
       @@ defaultsOf(fields, i - 1)

DefaultsBag(schema) ==
  LET fields == schema.categories.investment.items \o schema.categories.revenue.items
                \o schema.categories.operating.items \o schema.categories.staffing.items
  IN  defaultsOf(fields, Len(fields))

\* C5: a calculation with the empty bag gives the figures of the calculation with
\* the bag of the declared defaults.
C5_EmptyBagUsesDeclaredDefaults ==
  \A r \in LastResults :
    r.formData = EmptyBag =>
      LET schema == getProjectType(customTypes, r.typeId)[1]
          d == calculateProjectPL(customTypes, r.typeId, DefaultsBag(schema)).value[1]
      IN  /\ r.revenue.annual = d.revenue.annual
          /\ r.costs.operating = d.costs.operating
          /\ r.costs.staffing = d.costs.staffing
          /\ r.investment = d.investment

\* C6: a result with investment <= 0 has roiPercentage 0 and Infinity, the
\* 'never' value, for paybackYears and breakEvenMonth.
C6_RoiSentinel ==
  \A r \in LastResults :
    JSLe(r.investment, Num(0)) =>
      /\ r.roi.roiPercentage = Num(0)
      /\ r.roi.paybackYears = Infinity
      /\ r.roi.breakEvenMonth = Infinity

C6_Witness ==
  \E r \in LastResults : r.investment.n < 0 /\ r.profit.n > 0

\* p = ceil(x / y) for y > 0: p is an integer and (p - 1) * y < x <= p * y.
IsCeilOfRatio(p, x, y) ==
  /\ IsFinite(p)
  /\ p.d = 1
  /\ JSLe(x, JSMul(p, y))
  /\ JSLt(JSMul(JSSub(p, Num(1)), y), x)

\* C7: a result with investment > 0 has roiPercentage * investment = profit * 100;
\* with profit > 0, paybackYears = ceil(investment / profit) and breakEvenMonth =
\* ceil(12 * investment / profit); with profit <= 0 both are Infinity.
C7_RoiFigures ==
  \A r \in LastResults :
    JSGt(r.investment, Num(0)) =>
      /\ JSMul(r.roi.roiPercentage, r.investment) = JSMul(r.profit, Num(100))
      /\ JSGt(r.profit, Num(0)) =>
           /\ IsCeilOfRatio(r.roi.paybackYears, r.investment, r.profit)
           /\ IsCeilOfRatio(r.roi.breakEvenMonth, JSMul(Num(12), r.investment), r.profit)
      /\ JSLe(r.profit, Num(0)) =>
           /\ r.roi.paybackYears = Infinity
           /\ r.roi.breakEvenMonth = Infinity

C7_Witness ==
  \E r \in LastResults :
    /\ r.investment.n > 0
    /\ r.profit.n > 0
    /\ JSDiv(r.investment, r.profit).d # 1
    /\ r.roi.paybackYears.d = 1
    /\ r.roi.roiPercentage.d # 1

\* The entries of an import file that pass the shape check.
ValidEntries(custom) ==
  [k \in {id \in DOMAIN custom : SchemaShapeOk(custom[id])} |-> custom[k]]

\* C8: importConfiguration does not throw, and leaves exactly the entries of
\* data.custom that pass validation.
C8_ImportDropsInvalid ==
  [][\A configData \in ImportInputs :
       (ImportConfiguration(configData) /\ configData.hasCustom)
         => /\ ret'.error = ""
            /\ customTypes' = ValidEntries(configData.custom)]_vars

\* C9: a setProjectType, or a createFromTemplate, whose schema lacks a string id,
\* a string name or one of the four category arrays throws; and a call that
\* throws leaves the collection and its saved copy as they were.
C9_ValidateBeforeMutate ==
  [][/\ lastOp'.op = "setProjectType" =>
          \A config \in SchemaInputs :
            (SetProjectType(lastOp'.id, config) /\ ~SchemaShapeOk(config))
              => ret'.error # ""
     /\ lastOp'.op = "createFromTemplate" =>
          \A t \in TemplateIds, name \in Names :
            (/\ CreateFromTemplate(t, lastOp'.id, name)
             /\ getProjectType(customTypes, t) # Null
             /\ ~SchemaShapeOk([getProjectType(customTypes, t)[1] EXCEPT
                                  !.id = Str(lastOp'.id), !.name = name]))
              => ret'.error # ""
     /\ (lastOp'.op \in {"setProjectType", "createFromTemplate"} /\ ret'.error # "")
          => (customTypes' = customTypes /\ storage' = storage)]_vars

C9_Witness ==
  /\ lastOp.op = "createFromTemplate"
  /\ lastOp.id \in CustomIds
  /\ ret.error = "Project type must have staffing category as array"
  /\ customTypes # EmptyMap

C11_LatestResultPerId ==
  [][/\ lastOp'.op = "registerProjectType"
          => /\ ret'.error = ""
                  => /\ getCalculation(calculations', lastOp'.id) = ret'.value
                     /\ ret'.value = calculateProjectPL(customTypes, lastOp'.id,
                                                        projectTypes'[lastOp'.id]).value
             /\ ret'.error # ""
                  => getCalculation(calculations', lastOp'.id)
                       = getCalculation(calculations, lastOp'.id)
             /\ \A k \in (DOMAIN calculations \cup DOMAIN calculations') \ {lastOp'.id} :
                  getCalculation(calculations', k) = getCalculation(calculations, k)
     /\ lastOp'.op \notin {"registerProjectType", "constructor"}
          => calculations' = calculations]_vars

\* Two ids are cached with different bags, the last one just registered.
C11_Witness ==
  /\ lastOp.op = "registerProjectType"
  /\ ret.error = ""
  /\ calculations[lastOp.id].formData = profitBag
  /\ \E k \in DOMAIN calculations \ {lastOp.id} : calculations[k].formData = EmptyBag

\* What registerProjectType(id, data) does here, on a new engine, and when it
\* is repeated: the same result as on the new engine and as calculateProjectPL,
\* and the same two maps after the second call as after the first.
SameAsFresh(here, fresh, again, calc) ==
  /\ here.error = fresh.error
  /\ here.value = fresh.value
  /\ here.value = calc.value
  /\ again.value = here.value
  /\ again.calculations = here.calculations
  /\ again.projectTypes = here.projectTypes

RegisterTwice(here, fresh, calc, id, data) ==
  SameAsFresh(here, fresh,
              registerProjectType(customTypes, here.projectTypes, here.calculations,
                                  id, data),
              calc)

NumberAt(data, key) == IF key \in DOMAIN data THEN data[key] ELSE Num(0)

\* The membership keys of a bag hold finite numbers where they are present.
TierKeys ==
  {"weekMembers", "weekFee", "monthMembers", "monthFee", "annualMembers", "annualFee"}

TiersAreNumbers(data) ==
  \A key \in TierKeys \cap DOMAIN data : IsFinite(data[key])

\* weekMembers*weekFee*52 + monthMembers*monthFee*12 + annualMembers*annualFee
TierSum(data) ==
  JSAdd(JSAdd(JSMul(JSMul(NumberAt(data, "weekMembers"), NumberAt(data, "weekFee")),
                    Num(52)),
              JSMul(JSMul(NumberAt(data, "monthMembers"), NumberAt(data, "monthFee")),
                    Num(12))),
        JSMul(NumberAt(data, "annualMembers"), NumberAt(data, "annualFee")))

\* d * (base/12) * e/100 + (12 - d) * (base/12)
RampedTotal(base, d, e) ==
  JSAdd(JSDiv(JSMul(JSMul(d, JSDiv(base, Num(12))), e), Num(100)),
        JSMul(JSSub(Num(12), d), JSDiv(base, Num(12))))

\* The results of the last call when it was for the built-in gym template with
\* numeric membership figures.
GymResults ==
  {r \in LastResults : r.typeId = "gym" /\ TiersAreNumbers(r.formData)}

\* C13: for the gym template, a bag whose rampUp is the boolean true, with
\* rampDuration d in 0..12 and rampEffect e, gives the annual revenue
\* d*(base/12)*e/100 + (12-d)*(base/12); base 85800, d = 3, e = 40 gives 72930.
C13_RampUpWithBooleanFlag ==
  \A r \in GymResults :
    ({"rampUp", "rampDuration", "rampEffect"} \subseteq DOMAIN r.formData
     /\ r.formData.rampUp = Bool(TRUE)
     /\ IsFinite(r.formData.rampDuration)
     /\ IsFinite(r.formData.rampEffect)
     /\ JSLe(Num(0), r.formData.rampDuration)
     /\ JSLe(r.formData.rampDuration, Num(12)))
    => /\ r.revenue.annual
            = RampedTotal(TierSum(r.formData), r.formData.rampDuration,
                          r.formData.rampEffect)
       /\ (TierSum(r.formData) = Num(85800) /\ r.formData.rampDuration = Num(3)
           /\ r.formData.rampEffect = Num(40))
            => r.revenue.annual = Num(72930)

\* The ramp-up flag of a bag is set: the boolean true or a number other than 0.
FlagSet(data) ==
  /\ "rampUp" \in DOMAIN data
  /\ data.rampUp.t \in {"boolean", "number"}
  /\ Truthy(data.rampUp)

\* The flag is absent or the boolean false.
FlagOff(data) == "rampUp" \notin DOMAIN data \/ data.rampUp = Bool(FALSE)

NumberOf(value) == IF value.t = "number" THEN value ELSE parseFloat(value)

\* C15: getValue returns the number a value is or parses to when that number
\* is finite and not negative (0 and "0" included), and the default for every
\* other value.
C15_GetValueAcceptsNonNegative ==
  \A r \in LastResults :
    \A key \in DOMAIN r.formData, defaultValue \in {Num(0), Num(7)} :
      getValue(r.formData, key, defaultValue)
        = IF IsFinite(NumberOf(r.formData[key])) /\ JSGe(NumberOf(r.formData[key]), Num(0))
          THEN NumberOf(r.formData[key])
          ELSE defaultValue

\* A revenue field the generic formula is said to sum.
NamesRevenue(field) ==
  /\ field.type = "currency"
  /\ \E i \in 1..Len(chars[field.id]) - 6 :
       toLowerCase(SubSeq(chars[field.id], i, i + 6)) = <<"r", "e", "v", "e", "n", "u", "e">>

\* The bag value of a field, or else its default, or else 0.
ValueOrDefault(data, field) ==
  IF field.id \in DOMAIN data /\ data[field.id].t = "number" THEN data[field.id]
  ELSE IF field.id \in DOMAIN data /\ Truthy(parseFloat(data[field.id]))
  THEN parseFloat(data[field.id])
  ELSE IF Truthy(field.defaultValue) THEN field.defaultValue ELSE Num(0)

\* The sum over the first n fields.
RECURSIVE SumOfNamed(_, _, _)
SumOfNamed(fields, data, n) ==
  IF n = 0 THEN Num(0)
  ELSE JSAdd(IF NamesRevenue(fields[n]) THEN ValueOrDefault(data, fields[n]) ELSE Num(0),
             SumOfNamed(fields, data, n - 1))

\* The results of the last call together with the schema its type id resolves
\* to, when the schema's id has no formula of its own.
GenericResults ==
  {r \in LastResults :
     /\ getProjectType(customTypes, r.typeId) # Null
     /\ \A b \in BespokeIds : getProjectType(customTypes, r.typeId)[1].id # Str(b)}

\* C16: for a template without a formula of its own, revenue.annual is the sum
\* over the currency revenue fields whose id contains "revenue" in any case of
\* the bag value or else the default, 0 when there is none; the schema with
\* the one field productRevenue (default 1000) gives 1000 for the empty bag.
C16_GenericRevenue ==
  \A r \in GenericResults :
    /\ r.revenue.annual
         = SumOfNamed(getProjectType(customTypes, r.typeId)[1].categories.revenue.items,
                      r.formData,
                      Len(getProjectType(customTypes, r.typeId)[1].categories.revenue.items))
    /\ (getProjectType(customTypes, r.typeId)[1] = customSchema /\ r.formData = EmptyBag)
         => r.revenue.annual = Num(1000)
    /\ (getProjectType(customTypes, r.typeId)[1] = noRevenueSchema)
         => r.revenue.annual = Num(0)

\* Two fields are summed, one matched in capitals, one taken from the bag; a
\* percentage field and a currency field of another name are passed over.
C16_Witness ==
  \E r \in GenericResults :
    /\ getProjectType(customTypes, r.typeId)[1] = mixedRevenueSchema
    /\ r.formData = profitBag
    /\ r.revenue.annual = Num(5500)

\* One figure of a cached result: its annual revenue, annual costs or investment.
FigureOf(calculation, part) ==
  CASE part = "revenue" -> calculation.revenue.annual
    [] part = "costs" -> calculation.costs.annual
    [] OTHER -> calculation.investment

\* The sum of a figure, times a multiplier, over the first n listed ids that
\* have a cached result.
RECURSIVE ListedSum(_, _, _, _)
ListedSum(ids, n, part, multiplier) ==
  IF n = 0 THEN Num(0)
  ELSE JSAdd(ListedSum(ids, n - 1, part, multiplier),
             IF ids[n] \in DOMAIN calculations
             THEN JSMul(FigureOf(calculations[ids[n]], part), multiplier)
             ELSE Num(0))

\* The multiplier an adjustments object asks for: 1 when it names none.
MultiplierOf(v) == IF v = Undefined THEN Num(1) ELSE v

\* The totals the last calculateCombinedPL returned.
LastTotals ==
  IF lastOp.op = "calculateCombinedPL" THEN {ret.value.totals} ELSE {}

\* C17: the totals of calculateCombinedPL are the sums over the listed ids of
\* revenue.annual times the revenue multiplier, costs.annual times the cost
\* multiplier and investment, for every multiplier that is not negative, and
\* totals.profit = totals.revenue - totals.costs = the sum of the projects'
\* profits.
C17_CombinedTotals ==
  \A totals \in LastTotals :
    /\ totals.revenue = ListedSum(lastOp.ids, Len(lastOp.ids), "revenue",
                                  MultiplierOf(lastOp.adjustments.revenue))
    /\ totals.costs = ListedSum(lastOp.ids, Len(lastOp.ids), "costs",
                                MultiplierOf(lastOp.adjustments.costs))
    /\ totals.investment = ListedSum(lastOp.ids, Len(lastOp.ids), "investment", Num(1))
    /\ totals.profit = JSSub(totals.revenue, totals.costs)
    /\ totals.profit = runningTotal(ret.value.projects, "profit", Len(ret.value.projects))

\* C18: totals.roi and totals.paybackYears are the roiPercentage and the
\* paybackYears calculateROI gives for totals.investment and totals.profit;
\* when totals.investment <= 0 the payback is the 'never' marker.
C18_CombinedRoiAsSingle ==
  \A totals \in LastTotals :
    /\ totals.roi = calculateROI(totals.investment, totals.profit).roiPercentage
    /\ totals.paybackYears = calculateROI(totals.investment, totals.profit).paybackYears
    /\ JSLe(totals.investment, Num(0)) => totals.paybackYears = Infinity

\* The rows the last generateCashFlow returned.
LastRows == IF lastOp.op = "generateCashFlow" THEN {ret.value} ELSE {}

\* C19: generateCashFlow(ids, months) returns months rows numbered 1..months;
\* the first opens at 0; every row has inflow = combined annual revenue / 12,
\* outflow = combined annual cost / 12 and closing = opening + inflow -
\* outflow; every later row opens at the closing of the row before.
C19_CashFlowRows ==
  \A rows \in LastRows :
    /\ Len(rows) = lastOp.months
    /\ \A i \in 1..Len(rows) :
         /\ rows[i].month = i
         /\ rows[i].inflow
              = JSDiv(ListedSum(lastOp.ids, Len(lastOp.ids), "revenue", Num(1)), Num(12))
         /\ rows[i].outflow
              = JSDiv(ListedSum(lastOp.ids, Len(lastOp.ids), "costs", Num(1)), Num(12))
         /\ rows[i].closing = JSSub(JSAdd(rows[i].opening, rows[i].inflow), rows[i].outflow)
         /\ i = 1 => rows[i].opening = Num(0)
         /\ i > 1 => rows[i].opening = rows[i - 1].closing

\* Twelve rows over two cached projects, with a balance that moves every month.
C19_Witness ==
  \E rows \in LastRows :
    /\ lastOp.ids = <<"gym", "myBiz">>
    /\ {"gym", "myBiz"} \subseteq DOMAIN calculations
    /\ Len(rows) = 12
    /\ rows[1].closing.n # 0
    /\ rows[12].opening # rows[2].opening

\* The results of the last call when it used the benefits formula on a bag
\* with its four figures.
CapexResults ==
  {r \in LastResults :
     /\ getProjectType(customTypes, r.typeId)[1].id = Str("capexInvestment")
     /\ {"costSavings", "revenueIncrease", "implementationTime", "rampUpPeriod"}
          \subseteq DOMAIN r.formData}

\* 12 - implementationTime - rampUpPeriod
MonthsWithBenefits(data) ==
  JSSub(JSSub(Num(12), data.implementationTime), data.rampUpPeriod)

\* 0.5 when there is a ramp-up period, 1 when there is none
RampFactor(data) == IF data.rampUpPeriod = Num(0) THEN Num(1) ELSE Rat(1, 2)

\* C20: the first-year benefit is 0 when implementationTime + rampUpPeriod is
\* at least 12; below that it is (costSavings + revenueIncrease) * (12 -
\* implementationTime - rampUpPeriod)/12 * rampFactor, with rampFactor 0.5 for
\* a ramp-up period above 0 and 1 for none; at a sum of 11 that is a twelfth of
\* the benefits times rampFactor.
C20_CapexFirstYearBenefit ==
  \A r \in CapexResults :
    /\ JSLe(MonthsWithBenefits(r.formData), Num(0)) => r.revenue.annual = Num(0)
    /\ JSGt(MonthsWithBenefits(r.formData), Num(0))
         => r.revenue.annual
              = JSMul(JSDiv(JSMul(JSAdd(r.formData.costSavings, r.formData.revenueIncrease),
                                  MonthsWithBenefits(r.formData)),
                            Num(12)),
                      RampFactor(r.formData))
    /\ MonthsWithBenefits(r.formData) = Num(1)
         => r.revenue.annual
              = JSMul(JSDiv(JSAdd(r.formData.costSavings, r.formData.revenueIncrease),
                            Num(12)),
                      RampFactor(r.formData))

\* Eight months of implementation and three of ramp-up: the sum is 11 and the
\* benefit is 80000 / 12 / 2.
C20_Witness ==
  \E r \in CapexResults :
    /\ r.formData.implementationTime = Num(8)
    /\ r.formData.rampUpPeriod = Num(3)
    /\ r.revenue.annual = Rat(10000, 3)

\* The results of the last call when it used the court rental formula on a
\* bag with its eight slot figures.
PadelResults ==
  {r \in LastResults :
     /\ getProjectType(customTypes, r.typeId)[1].id = Str("padel")
     /\ {"peakHours", "peakRate", "peakUtil", "offHours", "offRate", "offUtil",
         "days", "weeks"} \subseteq DOMAIN r.formData}

\* The court count of a bag, one court when the bag has none.
CourtsOf(data) == IF "courts" \in DOMAIN data THEN data.courts ELSE Num(1)

\* hours * rate * days * weeks * courts * util / 100
SlotRevenue(hours, rate, util, data) ==
  JSDiv(JSMul(JSMul(JSMul(JSMul(JSMul(hours, rate), data.days), data.weeks),
                    CourtsOf(data)),
              util),
        Num(100))

\* peak slots plus off-peak slots
PadelFormula(data) ==
  JSAdd(SlotRevenue(data.peakHours, data.peakRate, data.peakUtil, data),
        SlotRevenue(data.offHours, data.offRate, data.offUtil, data))

\* C21 as stated: the court rental revenue is peakHours * peakRate * days *
\* weeks * courts * peakUtil / 100 + offHours * offRate * days * weeks * courts
\* * offUtil / 100, and three courts with 4 peak hours at 40 and 70 %, 2
\* off-peak hours at 25 and 35 %, 7 days and 52 weeks give 343980.
C21_PadelScenarioTotal ==
  \A r \in PadelResults :
    /\ r.revenue.annual = PadelFormula(r.formData)
    /\ r.formData = padelBag => r.revenue.annual = Num(343980)

\* C21: the court rental revenue is peakHours * peakRate * days * weeks *
\* courts * peakUtil / 100 + offHours * offRate * days * weeks * courts *
\* offUtil / 100, the court count multiplying peak and off-peak alike; three
\* courts with 4 peak hours at 40 and 70 %, 2 off-peak hours at 25 and 35 %, 7
\* days and 52 weeks give 141414 (122304 + 19110).
C21_PadelRevenue ==
  \A r \in PadelResults :
    /\ r.revenue.annual = PadelFormula(r.formData)
    /\ r.formData = padelBag
         => /\ r.revenue.annual = Num(141414)
            /\ SlotRevenue(Num(4), Num(40), Num(70), r.formData) = Num(122304)
            /\ SlotRevenue(Num(2), Num(25), Num(35), r.formData) = Num(19110)

\* The three-court scenario has been calculated.
C21_Witness ==
  \E r \in PadelResults : r.formData = padelBag /\ r.revenue.annual = Num(141414)

\* The number of events a bag names.
EventsOf(data) == NumberOf(data.eventsPerYear)

\* Whether a field is a per-event cost: its id contains "event".
PerEvent(field) == includes(chars[field.id], chars["event"])

\* The sum over the first n operating fields of the currency fields' values,
\* the per-event ones times the number of events when the bag names one.
RECURSIVE OperatingSum(_, _, _)
OperatingSum(fields, data, n) ==
  IF n = 0 THEN Num(0)
  ELSE JSAdd(OperatingSum(fields, data, n - 1),
             IF fields[n].type # "currency" THEN Num(0)
             ELSE IF PerEvent(fields[n]) /\ "eventsPerYear" \in DOMAIN data
             THEN JSMul(ValueOrDefault(data, fields[n]), EventsOf(data))
             ELSE ValueOrDefault(data, fields[n]))

\* The operating fields of the schema a result was calculated for.
OperatingFieldsOf(r) == getProjectType(customTypes, r.typeId)[1].categories.operating.items

\* C22: costs.operating is the sum of the currency-typed operating fields'
\* values (bag value or default), each field whose id contains "event" being
\* multiplied by eventsPerYear whenever the bag has eventsPerYear, 0 included.
C22_OperatingCostPerEvent ==
  \A r \in LastResults :
    r.costs.operating = OperatingSum(OperatingFieldsOf(r), r.formData,
                                     Len(OperatingFieldsOf(r)))

\* A staffing field other than the management fee and its flag.
OtherRole(field) == field.id \notin {"managementFee", "propertyManager"}

\* The staffing fields of the schema a result was calculated for.
StaffingFieldsOf(r) == getProjectType(customTypes, r.typeId)[1].categories.staffing.items

\* The results of the last call for a schema with a managementFee field and a
\* boolean propertyManager field, on a bag that sets the flag and the rent.
ManagedResults ==
  {r \in LastResults :
     /\ \E i \in DOMAIN StaffingFieldsOf(r) : StaffingFieldsOf(r)[i].id = "managementFee"
     /\ \E i \in DOMAIN StaffingFieldsOf(r) :
          /\ StaffingFieldsOf(r)[i].id = "propertyManager"
          /\ StaffingFieldsOf(r)[i].type = "boolean"
     /\ {"monthlyRent", "occupancyRate", "managementFee", "propertyManager"}
          \subseteq DOMAIN r.formData
     /\ r.formData.propertyManager.t = "boolean"}

\* monthlyRent * 12 * occupancyRate/100 * managementFee/100 with the flag set,
\* 0 with the flag cleared
ManagementFeeOf(data) ==
  IF data.propertyManager = Bool(TRUE)
  THEN JSDiv(JSDiv(JSMul(JSMul(JSMul(data.monthlyRent, Num(12)), data.occupancyRate),
                         data.managementFee),
                   Num(100)),
             Num(100))
  ELSE Num(0)

\* C23: with a managementFee field and a boolean propertyManager field,
\* costs.staffing is the cost of the other roles plus the management fee once:
\* monthlyRent * 12 * occupancyRate/100 * managementFee/100 when propertyManager
\* is true, 0 when it is false.
C23_ManagementFeeOnce ==
  \A r \in ManagedResults :
    r.costs.staffing
      = JSAdd(calculateStaffingCosts(SelectSeq(StaffingFieldsOf(r), OtherRole), r.formData),
              ManagementFeeOf(r.formData))

\* A step that is the call createFromTemplate(baseId, newId, newName).
IsCreateFromTemplate(baseId, newId, newName) ==
  /\ lastOp'.op = "createFromTemplate"
  /\ lastOp'.id = newId
  /\ CreateFromTemplate(baseId, newId, newName)

\* The registered schema is a clone of the base under the new id and name.
IsCloneOf(clone, base, newId, newName) ==
  /\ clone.id = Str(newId)
  /\ clone.name = newName
  /\ clone.businessType = base.businessType
  /\ clone.categories = base.categories

\* The call failed with 'Template not found' and changed nothing.
TemplateNotFound ==
  /\ ret'.error = "Template not found"
  /\ customTypes' = customTypes
  /\ storage' = storage

\* A setProjectType or deleteProjectType leaves every other template as it was.
OthersUntouched ==
  (lastOp'.op \in {"setProjectType", "deleteProjectType"})
    => \A k \in Ids \ {lastOp'.id} :
         getProjectType(customTypes', k) = getProjectType(customTypes, k)

\* C24 as stated: createFromTemplate(baseId, newId, newName) registers a deep
\* clone of the base under the new id and name and leaves the base unchanged,
\* replacing or deleting one template later does not alter another, and with
\* baseId not in the registry the call fails with 'Template not found' and
\* changes nothing.
C24_CloneAlwaysRegistered ==
  [][/\ \A baseId \in TemplateIds, newName \in Names :
          IsCreateFromTemplate(baseId, lastOp'.id, newName)
            => IF getProjectType(customTypes, baseId) = Null
               THEN TemplateNotFound
               ELSE /\ getProjectType(customTypes', lastOp'.id) # Null
                    /\ IsCloneOf(getProjectType(customTypes', lastOp'.id)[1],
                                 getProjectType(customTypes, baseId)[1],
                                 lastOp'.id, newName)
                    /\ getProjectType(customTypes', baseId)
                         = getProjectType(customTypes, baseId)
     /\ OthersUntouched]_vars

\* C24: a createFromTemplate(baseId, newId, newName) that succeeds registers a
\* deep clone of the base: getProjectType(newId) has id newId, name newName and
\* the businessType and category field lists of the base at the call; the base
\* is unchanged when newId differs from baseId; replacing or deleting one
\* template later does not alter another; with baseId not in the registry the
\* call fails with 'Template not found' and changes nothing.
C24_CloneRegisteredOnSuccess ==
  [][/\ \A baseId \in TemplateIds, newName \in Names :
          IsCreateFromTemplate(baseId, lastOp'.id, newName)
            => IF getProjectType(customTypes, baseId) = Null
               THEN TemplateNotFound
               ELSE ret'.error = ""
                      => /\ getProjectType(customTypes', lastOp'.id) # Null
                         /\ IsCloneOf(getProjectType(customTypes', lastOp'.id)[1],
                                      getProjectType(customTypes, baseId)[1],
                                      lastOp'.id, newName)
                         /\ baseId # lastOp'.id
                              => getProjectType(customTypes', baseId)
                                   = getProjectType(customTypes, baseId)
     /\ OthersUntouched]_vars

\* "other" has been cloned from the user template "myBiz", which is still as
\* it was set.
C24_Witness ==
  /\ lastOp.op = "createFromTemplate"
  /\ lastOp.id = "other"
  /\ ret.error = ""
  /\ "myBiz" \in DOMAIN customTypes
  /\ customTypes["myBiz"] = customSchema
  /\ customTypes["other"].id = Str("other")
  /\ customTypes["other"].name = Str("My Clone")
  /\ customTypes["other"].categories = customSchema.categories
  /\ customTypes["other"].description = "Custom My Clone based on My Business"

\* The projects the last calculateCombinedPL listed.
LastProjects ==
  IF lastOp.op = "calculateCombinedPL"
  THEN {ret.value.projects[i] : i \in DOMAIN ret.value.projects}
  ELSE {}

\* C25: whatever registry and engine calls came before, every project that
\* calculateCombinedPL lists is a project type the registry holds at that
\* moment: the cached result of a deleted template is not aggregated.
C25_CombinedOnlyRegistered ==
  \A p \in LastProjects : getProjectType(customTypes, p.typeId) # Null

\* C26: every user template is stored under its own id: each entry (k, schema)
\* of the user collection has schema.id = k, so none carries the id of a
\* built-in or of another template.
C26_StoredUnderOwnId ==
  \A k \in DOMAIN customTypes : customTypes[k].id = Str(k)

\* A salary field: a currency field whose id ends in "Sal".
IsSalary(field) == field.type = "currency" /\ endsWith(chars[field.id], chars["Sal"])

\* The sum over the roles declared in the first n staffing fields: a headcount
\* field followed by its salary field counts headcount * salary.
RECURSIVE DeclaredRolesSum(_, _, _)
DeclaredRolesSum(fields, data, n) ==
  IF n < 2 THEN Num(0)
  ELSE JSAdd(DeclaredRolesSum(fields, data, n - 1),
             IF IsSalary(fields[n]) /\ fields[n - 1].type = "number"
             THEN JSMul(ValueOrDefault(data, fields[n - 1]), ValueOrDefault(data, fields[n]))
             ELSE Num(0))

\* The results of the last call for a built-in template at its default values.
BuiltinDefaultResults ==
  {r \in LastResults : r.typeId \in BuiltinIds /\ r.formData = EmptyBag}

\* C27: for every built-in template at its default values costs.staffing is
\* the sum over the template's roles of headcount * salary, no declared salary
\* being dropped; for saas that is 2 * 60000 + 1 * 45000 = 165000.
C27_BuiltinStaffingAtDefaults ==
  \A r \in BuiltinDefaultResults :
    /\ r.costs.staffing
         = DeclaredRolesSum(StaffingFieldsOf(r), r.formData, Len(StaffingFieldsOf(r)))
    /\ r.typeId = "saas" => r.costs.staffing = Num(165000)

\* C30: after any sequence of registerProjectType calls, failed ones included,
\* the ids with stored input data (projectTypes) are the ids with a cached
\* result (calculations); a call that fails with 'Unknown project type' leaves
\* both maps as they were.
C30_MapsInStep == DOMAIN projectTypes = DOMAIN calculations

\* the elements of an insertion-ordered set
Members(set) == {set[i] : i \in DOMAIN set}

\* The active project is null exactly when nothing is selected, and is one of
\* the selected ids otherwise.
ActiveAmongSelected(active, selected) ==
  /\ active = Null <=> selected = <<>>
  /\ active # Null => active[1] \in Members(selected)

\* C28: from an empty selection, after any setBusinessType, addProjectType,
\* removeProjectType, setActiveProjectType / setActiveProject and
\* clearProjectTypes, in SelectionStateManager and in NovaStateManager alike
\* the active project is null exactly when no project type is selected and is
\* otherwise one of the selected project types.
C28_ActiveAmongSelected ==
  /\ ActiveAmongSelected(selection.activeProjectType, selection.selectedProjectTypes)
  /\ ActiveAmongSelected(nova.activeProject, nova.projectTypes)

\* The active project of each manager has just been removed while another
\* project stayed selected: the remaining one is active.
C28_Witness ==
  /\ lastOp.op = "Selection.removeProjectType"
  /\ ret.value = Bool(TRUE)
  /\ selection.selectedProjectTypes = <<"other">>
  /\ selection.activeProjectType = Some("other")
  /\ nova.projectTypes = <<"", "gym">>
  /\ nova.activeProject = Some("gym")

\* C29: whatever the interleaving of the automatic start, manual calls of
\* window.initializeNova and retries, the initialization sequence completes at
\* most once: 'nova-ready' is dispatched at most once, and once initialized is
\* true no run is still on its way through the steps.
C29_InitializedOnce ==
  /\ initializer.ready <= 1
  /\ initializer.initialized
       => \A i \in DOMAIN initializer.runs : initializer.runs[i].step = "returned"

====
